---- MODULE Spec2Model ----
(***************************************************************************)
(* A model of flexget/validator.py: the diagnostics collector (Errors),    *)
(* the rule registry and factory, every rule kind's validateable /         *)
(* validate / schema, alternative selection (validate_item), the sequence  *)
(* and mapping rules, and the deferred wrapper (LazyValidator).            *)
(*                                                                         *)
(* Rule objects live in a heap: `nodes` is a sequence of node records and  *)
(* a rule's identity is its index.  Python calls are operators that take   *)
(* and return a "world" [nodes, calls] (the heap and the number of         *)
(* constructor invocations made by deferred wrappers) together with the    *)
(* returned value and the exception raised, if any.                        *)
(***************************************************************************)
EXTENDS Integers, Sequences, FiniteSets, TLC

VARIABLES
  nodes,   \* the heap of rule objects
  calls,   \* constructor invocations made by deferred wrappers so far
  last,    \* the last validate / schema call: arguments, pre-state, outcome
  ops,     \* construction calls made so far
  runs,    \* validate / schema calls made so far
  threads  \* the validate calls two threads run on one tree, step by step

vars == <<nodes, calls, last, ops, runs, threads>>

(***************************************************************************)
(* Bounds of the model.                                                    *)
(***************************************************************************)
MaxNodes == 4        \* rule objects in the heap (tree specification)
MaxOps == 3          \* configuration operations on a mapping rule
MaxLeafAccepts == 2  \* accept/reject calls on a single leaf rule
MaxCalls == 1        \* validate / schema calls made on one heap
MaxDepth == 3        \* nesting depth of the self-referential input

(***************************************************************************)
(* Python data values.  Every value is a record of one shape:              *)
(*   t     the Python type: text, int, long, float, bool, none, list, dict *)
(*   s     the characters of a text                                        *)
(*   n     twice the numeric value of a number (so that 1.5 is 3)          *)
(*   items the elements of a list, or the [k, v] entries of a dict in      *)
(*         iteration order                                                 *)
(***************************************************************************)
VText(s) == [t |-> "text", s |-> s, n |-> 0, items |-> <<>>]
VInt(i) == [t |-> "int", s |-> "", n |-> 2 * i, items |-> <<>>]
VLong(i) == [t |-> "long", s |-> "", n |-> 2 * i, items |-> <<>>]
VFloat(h) == [t |-> "float", s |-> "", n |-> h, items |-> <<>>]
VBool(b) == [t |-> "bool", s |-> "", n |-> IF b THEN 2 ELSE 0, items |-> <<>>]
VNone == [t |-> "none", s |-> "", n |-> 0, items |-> <<>>]
VList(xs) == [t |-> "list", s |-> "", n |-> 0, items |-> xs]
VDict(kvs) == [t |-> "dict", s |-> "", n |-> 0, items |-> kvs]
KV(k, v) == [k |-> k, v |-> v]

\* isinstance(data, basestring), (data, int), ... : bool is a subclass of int,
\* long is not.
IsText(d) == d.t = "text"
IsInt(d) == d.t \in {"int", "bool"}
IsLong(d) == d.t = "long"
IsFloat(d) == d.t = "float"
IsBool(d) == d.t = "bool"
IsList(d) == d.t = "list"
IsDict(d) == d.t = "dict"
IsNumeric(d) == d.t \in {"int", "bool", "long", "float"}

Range(f) == {f[i] : i \in DOMAIN f}
DictKeys(d) == {d.items[i].k : i \in DOMAIN d.items}
DictGet(d, k) == d.items[CHOOSE i \in DOMAIN d.items : d.items[i].k = k].v

\* Python's ==: numbers compare by value across bool/int/long/float, texts by
\* characters, lists elementwise, dicts by key set and values.
RECURSIVE PyEq(_, _)
PyEq(a, b) ==
  IF IsNumeric(a) /\ IsNumeric(b) THEN a.n = b.n
  ELSE IF a.t # b.t THEN FALSE
  ELSE IF a.t = "text" THEN a.s = b.s
  ELSE IF a.t = "none" THEN TRUE
  ELSE IF a.t = "list" THEN
    /\ Len(a.items) = Len(b.items)
    /\ \A i \in DOMAIN a.items : PyEq(a.items[i], b.items[i])
  ELSE
    /\ DictKeys(a) = DictKeys(b)
    /\ \A k \in DictKeys(a) : PyEq(DictGet(a, k), DictGet(b, k))

\* sep.join(parts)
RECURSIVE Join(_, _)
Join(parts, sep) ==
  IF parts = <<>> THEN ""
  ELSE IF Len(parts) = 1 THEN parts[1]
  ELSE parts[1] \o sep \o Join(Tail(parts), sep)

\* unicode(data) / '%s' % data, and repr for the elements of containers.
RECURSIVE Repr(_)
ReprSeq(xs) == [i \in DOMAIN xs |-> Repr(xs[i])]
ReprKVs(kvs) == [i \in DOMAIN kvs |-> "u'" \o kvs[i].k \o "': " \o Repr(kvs[i].v)]
NumStr(d) ==
  IF d.t = "bool" THEN (IF d.n = 2 THEN "True" ELSE "False")
  ELSE IF d.t = "float"
    THEN ToString(d.n \div 2) \o (IF d.n % 2 = 0 THEN ".0" ELSE ".5")
    ELSE ToString(d.n \div 2)
Repr(d) ==
  IF d.t = "text" THEN "u'" \o d.s \o "'"
  ELSE IF d.t = "none" THEN "None"
  ELSE IF d.t = "long" THEN NumStr(d) \o "L"
  ELSE IF d.t = "list" THEN "[" \o Join(ReprSeq(d.items), ", ") \o "]"
  ELSE IF d.t = "dict" THEN "{" \o Join(ReprKVs(d.items), ", ") \o "}"
  ELSE NumStr(d)
Str(d) ==
  IF d.t = "text" THEN d.s
  ELSE IF d.t = "long" THEN NumStr(d)
  ELSE Repr(d)

(***************************************************************************)
(* The strings of the model, in sorted() order, and the text operations    *)
(* the code applies to them.                                               *)
(***************************************************************************)
SortedStrings ==
  << "(", "/nowhere", "/tmp", "/tmp/f", "/tmp/{{x}}", "0", "1", "1 day",
     "1.5", "2", "720p", "FOO", "False", "Foo", "True", "a", "b", "child",
     "foo", "http://x" >>
StrRank(s) ==
  IF \E i \in DOMAIN SortedStrings : SortedStrings[i] = s
    THEN CHOOSE i \in DOMAIN SortedStrings : SortedStrings[i] = s
    ELSE Len(SortedStrings) + 1

\* sorted(strings)
RECURSIVE Sorted(_)
Sorted(xs) ==
  IF xs = <<>> THEN <<>>
  ELSE LET m == CHOOSE i \in DOMAIN xs :
                  \A j \in DOMAIN xs :
                    \/ StrRank(xs[i]) < StrRank(xs[j])
                    \/ (StrRank(xs[i]) = StrRank(xs[j]) /\ i <= j)
           rest == [j \in 1..(Len(xs) - 1) |-> IF j < m THEN xs[j] ELSE xs[j + 1]]
       IN <<xs[m]>> \o Sorted(rest)

\* text.lower()
Lower(s) == IF s \in {"Foo", "FOO"} THEN "foo" ELSE s

(***************************************************************************)
(* class Errors: the diagnostics collector.  A message keeps, beside the   *)
(* formatted text the code stores, the path it was formatted from.         *)
(* path_level is <<>> for None and <<n>> for the integer n.                *)
(***************************************************************************)
ErrorsNew == [messages |-> <<>>, path |-> <<>>, path_level |-> <<>>]

count(e) == Len(e.messages)

add(e, msg) ==
  [e EXCEPT !.messages =
     Append(@, [text |-> "[/" \o Join(e.path, "/") \o "] " \o msg,
                path |-> e.path])]

\* back_out_errors that removes nothing
back_out_nothing(e, num) == e

\* del self.messages[0 - num:] when num > 0
back_out_errors(e, num) ==
  IF num > 0
    THEN [e EXCEPT !.messages =
            SubSeq(@, 1, IF num >= Len(@) THEN 0 ELSE Len(@) - num)]
    ELSE e

\* path_add_level that marks the first segment whatever the depth
path_add_unmarked(e, value) ==
  [e EXCEPT !.path_level = <<0>>, !.path = Append(@, value)]

path_add_level(e, value) ==
  [e EXCEPT !.path_level = <<Len(e.path)>>, !.path = Append(@, value)]

\* The 1-based position a Python index denotes in a list of length len, or 0
\* when the index is out of range (IndexError).
PyIndex(i, len) ==
  IF i >= 0 THEN (IF i < len THEN i + 1 ELSE 0)
  ELSE (IF len + i >= 0 THEN len + i + 1 ELSE 0)

\* The exception path_remove_level / path_update_value raises, "" for none.
path_level_exc(e) ==
  IF e.path_level = <<>> THEN "Exception"
  ELSE IF PyIndex(e.path_level[1], Len(e.path)) = 0 THEN "IndexError"
  ELSE ""

\* path_remove_level that lowers the marker and leaves the path as it is
path_level_down(e) == [e EXCEPT !.path_level = <<e.path_level[1] - 1>>]

path_remove_level(e) ==
  LET p == PyIndex(e.path_level[1], Len(e.path))
  IN [e EXCEPT !.path = SubSeq(@, 1, p - 1) \o SubSeq(@, p + 1, Len(@)),
               !.path_level = <<e.path_level[1] - 1>>]

path_update_value(e, value) ==
  [e EXCEPT !.path[PyIndex(e.path_level[1], Len(e.path))] = value]

(***************************************************************************)
(* Rule objects.  One record shape serves every class; a field a class     *)
(* does not have keeps its default.                                        *)
(*   kind      the class attribute name ("lazy" for a LazyValidator)       *)
(*   parent    0 for None, else the parent's index                         *)
(*   message   the custom message, "" for None (the code only tests its    *)
(*             truth)                                                      *)
(*   errors    _errors: <<>> for None, else <<collector>>                  *)
(*   valid     root, list: the accepted child rules                        *)
(*   vals      choice: self.valid, the case-sensitive values               *)
(*   valid_ic  choice: the lower-cased case-insensitive texts              *)
(*   eq        equals, any: self.valid, [] until accept replaces it        *)
(*   regexps, reject_regexps   regexp_match: the compiled patterns         *)
(*   allow_replacement, allow_missing   path                               *)
(*   protocols url                                                         *)
(*   reject    dict: [k, msg] entries, msg the template's parts (<<>> for  *)
(*             None)                                                       *)
(*   any_key, required_keys, key_validators ([kv, vv] pairs)   dict        *)
(*   dvalid    dict: self.valid, [k, rules] entries                        *)
(*   func, validator   lazy: the constructor's name; 0 for None, -1 for an *)
(*             object that is not a Validator, else the built rule         *)
(***************************************************************************)
DefaultProtocols == <<"ftp", "http", "https", "file">>

NodeNew(kind, parent, message) ==
  [kind |-> kind, parent |-> parent, message |-> message, errors |-> <<>>,
   valid |-> <<>>, vals |-> <<>>, valid_ic |-> <<>>, eq |-> VList(<<>>),
   regexps |-> <<>>, reject_regexps |-> <<>>,
   allow_replacement |-> FALSE, allow_missing |-> FALSE,
   protocols |-> DefaultProtocols,
   reject |-> <<>>, any_key |-> <<>>, required_keys |-> <<>>,
   key_validators |-> <<>>, dvalid |-> <<>>,
   func |-> "", validator |-> 0]

\* The world: the heap, the number of constructor invocations made by
\* wrappers, and a record, for each key a mapping rule has processed, of the
\* branch taken and the value of the local variable rules.
World(ns, c) == [nodes |-> ns, calls |-> c, log |-> <<>>]

Logged(w, self, key, tier, rules) ==
  [w EXCEPT !.log = Append(@, [self |-> self, key |-> key, tier |-> tier,
                               rules |-> rules])]

\* The record of one validate_item call that returned: the rule it was
\* called on, the item, the candidates, the diagnostic count when it started
\* and when it returned, and what it returned.
Selection(w, self, item, rules, before, after, ret) ==
  [w EXCEPT !.log = Append(@, [self |-> self, key |-> "", tier |-> "select",
                               rules |-> rules, item |-> item,
                               before |-> before, after |-> after,
                               ret |-> ret])]

\* Results of a call: the world after it, the value returned, the index of a
\* rule returned, and the exception raised ("" for none).
Ret(w, ret) == [w |-> w, ret |-> ret, id |-> 0, exc |-> ""]
RetId(w, id) == [w |-> w, ret |-> TRUE, id |-> id, exc |-> ""]
Raise(w, exc) == [w |-> w, ret |-> FALSE, id |-> 0, exc |-> exc]

\* Validator.errors: walk the parent references to the parentless rule; the
\* walk gives up (RuntimeError: recursion depth) on a cycle of parents.
RECURSIVE RootOfFuel(_, _, _)
RootOfFuel(ns, id, fuel) ==
  IF ns[id].parent = 0 THEN id
  ELSE IF fuel = 0 THEN 0
  ELSE RootOfFuel(ns, ns[id].parent, fuel - 1)
RootOf(ns, id) == RootOfFuel(ns, id, Len(ns))

\* The collector self.errors evaluates to, created at the root when missing.
ErrorsOf(w, id) ==
  LET r == RootOf(w.nodes, id)
  IN IF w.nodes[r].errors = <<>> THEN ErrorsNew ELSE w.nodes[r].errors[1]

SetErrors(w, id, e) ==
  [w EXCEPT !.nodes[RootOf(w.nodes, id)].errors = <<e>>]

\* self.errors.<operation>(...) on rule id.
ErrTouch(w, id) == SetErrors(w, id, ErrorsOf(w, id))
ErrCount(w, id) == count(ErrorsOf(w, id))
ErrAdd(w, id, msg) == SetErrors(w, id, add(ErrorsOf(w, id), msg))
ErrBackOut(w, id, num) == SetErrors(w, id, back_out_errors(ErrorsOf(w, id), num))
\* The record of one validate call that returned v: the rule, what it
\* returned, the path of its collector when it started (e0) and when it
\* returned, and whether the diagnostics the collector held when the call
\* started are, unchanged, its first diagnostics on return.
Called(v, id, e0) ==
  IF v.exc # "" THEN v
  ELSE [v EXCEPT !.w.log =
          Append(@, [self |-> id, tier |-> "call",
                     ret |-> v.ret, path0 |-> e0.path,
                     path |-> ErrorsOf(v.w, id).path,
                     kept |-> /\ count(e0) <= ErrCount(v.w, id)
                              /\ SubSeq(ErrorsOf(v.w, id).messages, 1,
                                        count(e0)) = e0.messages])]

\* The path operations also record, in the world's log, the path and the
\* marker of the collector before (e0) and after (e1) the operation.
PathOp(w, id, op, e0, e1) ==
  [SetErrors(w, id, e1) EXCEPT !.log =
     Append(@, [self |-> id, tier |-> "path",
                op |-> op, path0 |-> e0.path, level0 |-> e0.path_level,
                path |-> e1.path, level |-> e1.path_level])]
ErrPathAdd(w, id) ==
  PathOp(w, id, "open", ErrorsOf(w, id), path_add_level(ErrorsOf(w, id), "?"))
ErrPathUpdate(w, id, v) ==
  PathOp(w, id, "update", ErrorsOf(w, id),
         path_update_value(ErrorsOf(w, id), v))
ErrPathRemove(w, id) ==
  PathOp(w, id, "close", ErrorsOf(w, id), path_remove_level(ErrorsOf(w, id)))


(***************************************************************************)
(* The collaborators outside the module (re, os.path, flexget.utils        *)
(* qualities), over the strings of the model.                              *)
(***************************************************************************)
IntervalPattern == "^\\d+ (second|minute|hour|day|week)s?$"
IntervalMessage == "should be in format 'x (seconds|minutes|hours|days|weeks)'"

\* re.compile(pattern) succeeds
ReCompiles(pattern) == pattern # "("
\* re.compile(pattern).match(text) is not None
ReMatch(pattern, text) ==
  \/ pattern = "." /\ text # ""
  \/ pattern = "a" /\ text = "a"
  \/ pattern = "foo" /\ text = "foo"
  \/ pattern = IntervalPattern /\ text = "1 day"
\* os.path.isdir(os.path.expanduser(path)), os.path.isfile(...)
IsDir(path) == path \in {"/tmp"}
IsFile(path) == path \in {"/tmp/f"}
\* The jinja or %(name)s placeholder search of PathValidator.validate: whether
\* a placeholder is found, and os.path.dirname of the text before it.
HasPlaceholder(text) == text = "/tmp/{{x}}"
DirBeforePlaceholder(text) == "/tmp"
\* re.match of the url pattern built from the protocols
UrlScheme(text) == IF text = "http://x" THEN "http" ELSE ""
UrlMatch(protocols, text) == UrlScheme(text) \in Range(protocols)
\* qualities.get(text) / qualities.Requirements(text) succeed; they raise
\* ValueError, whose message is QualityError, otherwise.
QualityKnown(text) == text = "720p"
QualityError(text) == "no quality named " \o text

(***************************************************************************)
(* The registry and the factory.  The metaclass runs for every class       *)
(* statement whose class, or a base of it, has it as metaclass: Validator  *)
(* itself and its nineteen subclasses, in the order of the file.           *)
(***************************************************************************)
ClassDefs ==
  << [cls |-> "Validator", attrs |-> {"name"}, name |-> "validator"],
     [cls |-> "RootValidator", attrs |-> {"name"}, name |-> "root"],
     [cls |-> "ChoiceValidator", attrs |-> {"name"}, name |-> "choice"],
     [cls |-> "AnyValidator", attrs |-> {"name"}, name |-> "any"],
     [cls |-> "EqualsValidator", attrs |-> {"name"}, name |-> "equals"],
     [cls |-> "NumberValidator", attrs |-> {"name"}, name |-> "number"],
     [cls |-> "IntegerValidator", attrs |-> {"name"}, name |-> "integer"],
     [cls |-> "DecimalValidator", attrs |-> {"name"}, name |-> "decimal"],
     [cls |-> "BooleanValidator", attrs |-> {"name"}, name |-> "boolean"],
     [cls |-> "TextValidator", attrs |-> {"name"}, name |-> "text"],
     [cls |-> "RegexpValidator", attrs |-> {"name"}, name |-> "regexp"],
     [cls |-> "RegexpMatchValidator", attrs |-> {"name"}, name |-> "regexp_match"],
     [cls |-> "IntervalValidator", attrs |-> {"name"}, name |-> "interval"],
     [cls |-> "FileValidator", attrs |-> {"name"}, name |-> "file"],
     [cls |-> "PathValidator", attrs |-> {"name"}, name |-> "path"],
     [cls |-> "UrlValidator", attrs |-> {"name"}, name |-> "url"],
     [cls |-> "ListValidator", attrs |-> {"name"}, name |-> "list"],
     [cls |-> "DictValidator", attrs |-> {"name"}, name |-> "dict"],
     [cls |-> "QualityValidator", attrs |-> {"name"}, name |-> "quality"],
     [cls |-> "QualityRequirementsValidator", attrs |-> {"name"},
      name |-> "quality_requirements"] >>

\* __metaclass__.__init__: registry[dict['name']] = cls
MetaclassInit(reg, c) ==
  IF "name" \in c.attrs THEN reg \cup {c.name} ELSE reg

RECURSIVE RegistryAfter(_)
RegistryAfter(n) ==
  IF n = 0 THEN {} ELSE MetaclassInit(RegistryAfter(n - 1), ClassDefs[n])

\* The names in the registry once the module is imported.
registry == RegistryAfter(Len(ClassDefs))

\* Keyword arguments of a constructor.
NoOpts ==
  [message |-> "", allow_replacement |-> FALSE, allow_missing |-> FALSE,
   protocols |-> <<>>]

\* registry[name](parent=..., **kwargs): the __init__ of each class.
Construct(kind, parent, opts) ==
  LET base == NodeNew(kind, parent, opts.message)
  IN IF kind = "interval"
       THEN [base EXCEPT !.regexps = <<IntervalPattern>>,
                         !.message = IntervalMessage]
     ELSE IF kind = "path"
       THEN [base EXCEPT !.allow_replacement = opts.allow_replacement,
                         !.allow_missing = opts.allow_missing]
     ELSE IF kind = "url"
       THEN [base EXCEPT !.protocols =
               IF opts.protocols # <<>> THEN opts.protocols ELSE DefaultProtocols]
     ELSE base

factory(w, name, parent, opts) ==
  IF name \notin registry THEN Raise(w, "Exception")
  ELSE RetId([w EXCEPT !.nodes = Append(@, Construct(name, parent, opts))],
             Len(w.nodes) + 1)

\* The value given to accept: a kind name, a built rule, or a constructor.
ByName(name) == [tag |-> "name", name |-> name, id |-> 0]
ByNode(id) == [tag |-> "node", name |-> "", id |-> id]
ByFunc(f) == [tag |-> "func", name |-> f, id |-> 0]

add_parent(w, id, parent) == [w EXCEPT !.nodes[id].parent = parent]

LazyNew(func, parent) ==
  [NodeNew("lazy", parent, "") EXCEPT !.func = func]

\* Validator.get_validator.  A wrapper is no Validator instance and is not
\* callable: given one, get_validator asks the factory for it as a name.
get_validator(w, self, value, opts) ==
  IF value.tag = "node"
    THEN IF w.nodes[value.id].kind = "lazy" THEN Raise(w, "Exception")
         ELSE RetId(add_parent(w, value.id, self), value.id)
  ELSE IF value.tag = "func"
    THEN RetId([w EXCEPT !.nodes = Append(@, LazyNew(value.name, self))],
               Len(w.nodes) + 1)
  ELSE factory(w, value.name, self, opts)


(***************************************************************************)
(* accept and the other construction methods.  A definition named for a    *)
(* call takes the world the call starts in; the definition that follows it *)
(* takes the result of the call's first step and carries on.               *)
(***************************************************************************)
\* RootValidator.accept, ListValidator.accept: self.valid.append(v)
child_appended(g, self) ==
  IF g.exc # "" THEN g
  ELSE RetId([g.w EXCEPT !.nodes[self].valid = Append(@, g.id)], g.id)
child_accept(w, self, value, opts) ==
  child_appended(get_validator(w, self, value, opts), self)

\* ChoiceValidator.accept
choice_accept(w, self, value, ignore_case) ==
  IF ~(IsText(value) \/ IsInt(value) \/ IsFloat(value)) THEN Raise(w, "Exception")
  ELSE IF IsText(value) /\ ignore_case
    THEN Ret([w EXCEPT !.nodes[self].valid_ic = Append(@, Lower(value.s))], TRUE)
  ELSE Ret([w EXCEPT !.nodes[self].vals = Append(@, value)], TRUE)

\* AnyValidator.accept, EqualsValidator.accept
equals_accept(w, self, value) == Ret([w EXCEPT !.nodes[self].eq = value], TRUE)

\* RegexpMatchValidator.accept / reject (add_regexp)
regexp_accept(w, self, regexp, message) ==
  IF ~ReCompiles(regexp) THEN Raise(w, "ValueError")
  ELSE Ret([w EXCEPT !.nodes[self].regexps = Append(@, regexp),
                     !.nodes[self].message = IF message # "" THEN message ELSE @],
           TRUE)
regexp_reject(w, self, regexp) ==
  IF ~ReCompiles(regexp) THEN Raise(w, "ValueError")
  ELSE Ret([w EXCEPT !.nodes[self].reject_regexps = Append(@, regexp)], TRUE)

\* require_key that appends the key even when it is already required
require_key_again(w, self, key) ==
  [w EXCEPT !.nodes[self].required_keys = Append(@, key)]

\* DictValidator.require_key
require_key(w, self, key) ==
  IF key \in Range(w.nodes[self].required_keys) THEN w
  ELSE [w EXCEPT !.nodes[self].required_keys = Append(@, key)]

\* self.valid.setdefault(key, []).append(v)
SetDefaultAppend(dvalid, key, v) ==
  IF \E i \in DOMAIN dvalid : dvalid[i].k = key
    THEN [i \in DOMAIN dvalid |->
            IF dvalid[i].k = key
              THEN [dvalid[i] EXCEPT !.rules = Append(@, v)] ELSE dvalid[i]]
    ELSE Append(dvalid, [k |-> key, rules |-> <<v>>])

\* DictValidator.accept
dict_appended(g, self, key) ==
  IF g.exc # "" THEN g
  ELSE RetId([g.w EXCEPT !.nodes[self].dvalid = SetDefaultAppend(@, key, g.id)],
             g.id)
dict_accept(w, self, value, key, required, opts) ==
  IF key = "" THEN Raise(w, "ValueError")
  ELSE dict_appended(
         get_validator(IF required THEN require_key(w, self, key) ELSE w,
                       self, value, opts),
         self, key)

\* DictValidator.reject_key: self.reject[key] = message
SetItem(rj, key, message) ==
  IF \E i \in DOMAIN rj : rj[i].k = key
    THEN [i \in DOMAIN rj |->
            IF rj[i].k = key THEN [k |-> key, msg |-> message] ELSE rj[i]]
    ELSE Append(rj, [k |-> key, msg |-> message])
reject_key(w, self, key, message) ==
  [w EXCEPT !.nodes[self].reject = SetItem(@, key, message)]

\* DictValidator.accept_any_key
any_key_appended(g, self) ==
  IF g.exc # "" THEN g
  ELSE RetId([g.w EXCEPT !.nodes[self].any_key = Append(@, g.id)], g.id)
accept_any_key(w, self, value, opts) ==
  any_key_appended(get_validator(w, self, value, opts), self)

\* DictValidator.accept_valid_keys; key_type is the list of kind names (<<>>
\* when not given), key_validator a built rule (0 when not given).
RECURSIVE AcceptKeyTypes(_, _, _, _)
key_type_accepted(a, kv, key_type, i) ==
  IF a.exc # "" THEN a ELSE AcceptKeyTypes(a.w, kv, key_type, i + 1)
\* for key_type in key_type: key_validator.accept(key_type)
AcceptKeyTypes(w, kv, key_type, i) ==
  IF i > Len(key_type) THEN RetId(w, kv)
  ELSE key_type_accepted(child_accept(w, kv, ByName(key_type[i]), NoOpts),
                         kv, key_type, i)
key_root_built(r, key_type) ==
  IF r.exc # "" THEN r ELSE AcceptKeyTypes(r.w, r.id, key_type, 1)
pair_appended(g, self, kv) ==
  IF g.exc # "" THEN g
  ELSE RetId([g.w EXCEPT !.nodes[self].key_validators =
                Append(@, [kv |-> kv, vv |-> g.id])], g.id)
key_validator_ready(k, self, value, opts) ==
  IF k.exc # "" THEN k
  ELSE pair_appended(get_validator(k.w, self, value, opts), self, k.id)
accept_valid_keys(w, self, value, key_type, key_validator, opts) ==
  IF key_type # <<>> /\ key_validator # 0 THEN Raise(w, "ValueError")
  ELSE IF key_validator # 0
    THEN key_validator_ready(
           RetId(add_parent(w, key_validator, self), key_validator),
           self, value, opts)
  ELSE IF key_type # <<>>
    THEN key_validator_ready(
           key_root_built(get_validator(w, self, ByName("root"), NoOpts), key_type),
           self, value, opts)
  ELSE Raise(w, "ValueError")

(***************************************************************************)
(* LazyValidator.  The constructors callers hand to accept:                *)
(*   self_dict   builds a dict rule that accepts, under key child, a       *)
(*               deferred copy of itself                                   *)
(*   text        builds a text rule                                        *)
(*   not_a_rule  returns an object that is not a Validator and has none of *)
(*               a rule's attributes                                       *)
(*   wrapped_text  returns a LazyValidator around the constructor text: a  *)
(*               wrapper is not a Validator                                *)
(***************************************************************************)
self_dict_built(d) ==
  RetId(dict_accept(d.w, d.id, ByFunc("self_dict"), "child", FALSE, NoOpts).w,
        d.id)
CallFunc(w, f) ==
  IF f = "self_dict" THEN self_dict_built(factory(w, "dict", 0, NoOpts))
  ELSE IF f = "text" THEN factory(w, "text", 0, NoOpts)
  ELSE IF f = "wrapped_text"
    THEN RetId([w EXCEPT !.nodes = Append(@, LazyNew("text", 0))],
               Len(w.nodes) + 1)
  ELSE RetId(w, -1)

\* isinstance(obj, Validator) of what a constructor returned
IsValidator(w, obj) == obj > 0 /\ w.nodes[obj].kind # "lazy"

\* A wrapper that does not keep the rule its constructor returned
materialized_forgetful(c, id, parent) ==
  IF ~IsValidator(c.w, c.id)
    THEN Raise([c.w EXCEPT !.calls = @ + 1], "AssertionError")
  ELSE RetId(add_parent([c.w EXCEPT !.calls = @ + 1], c.id, parent), c.id)

\* LazyValidator.__getattr__, once self.func() has returned c: the wrapper
\* keeps what the constructor returned, checks it and attaches it
materialized(c, id, parent) ==
  IF ~IsValidator(c.w, c.id)
    THEN Raise([c.w EXCEPT !.nodes[id].validator = c.id, !.calls = @ + 1],
               "AssertionError")
    ELSE RetId(add_parent([c.w EXCEPT !.nodes[id].validator = c.id,
                                      !.calls = @ + 1], c.id, parent), c.id)

\* LazyValidator.__getattr__: the rule an attribute access on rule id reaches.
\* A rule that is no wrapper reaches itself; a wrapper that keeps an object
\* hands the access to that object, whatever it is.
RECURSIVE Resolve(_, _)
Resolve(w, id) ==
  IF w.nodes[id].kind # "lazy" THEN RetId(w, id)
  ELSE IF w.nodes[id].validator = 0
    THEN materialized(CallFunc(w, w.nodes[id].func), id, w.nodes[id].parent)
  ELSE IF w.nodes[id].validator = -1 THEN Raise(w, "AttributeError")
  ELSE Resolve(w, w.nodes[id].validator)

(***************************************************************************)
(* validateable and validate of every class.                               *)
(***************************************************************************)
\* <class>.validateable(data) of a rule that is no wrapper
validateable(w, id, data) ==
  LET kind == w.nodes[id].kind
  IN IF kind = "validator" THEN Raise(w, "NotImplementedError")
     ELSE IF kind \in {"root", "any"} THEN Ret(w, TRUE)
     ELSE IF kind \in {"choice", "equals"}
       THEN Ret(w, IsText(data) \/ IsInt(data) \/ IsFloat(data))
     ELSE IF kind = "number"
       THEN Ret(w, IsInt(data) \/ IsFloat(data) \/ IsLong(data))
     ELSE IF kind = "integer" THEN Ret(w, IsInt(data))
     ELSE IF kind = "decimal" THEN Ret(w, IsFloat(data))
     ELSE IF kind = "boolean" THEN Ret(w, IsBool(data))
     ELSE IF kind = "list" THEN Ret(w, IsList(data))
     ELSE IF kind = "dict" THEN Ret(w, IsDict(data))
     ELSE Ret(w, IsText(data))

\* rule.validateable(data), rule possibly a wrapper
resolved_validateable(r, data) ==
  IF r.exc # "" THEN r ELSE validateable(r.w, r.id, data)
CallValidateable(w, id, data) == resolved_validateable(Resolve(w, id), data)

\* rule.message and rule.name, rule possibly a wrapper
resolved_message(r) == IF r.exc # "" THEN "" ELSE r.w.nodes[r.id].message
MessageOf(w, id) == resolved_message(Resolve(w, id))
resolved_name(r) == IF r.exc # "" THEN "" ELSE r.w.nodes[r.id].kind
NameOf(w, id) == resolved_name(Resolve(w, id))

\* A validate that fails with one diagnostic.
Fail(w, id, msg) == Ret(ErrAdd(w, id, msg), FALSE)

\* ChoiceValidator.validate
choice_validate(w, id, data) ==
  LET nd == w.nodes[id]
  IN IF \E i \in DOMAIN nd.vals : PyEq(data, nd.vals[i]) THEN Ret(w, TRUE)
     ELSE IF IsText(data) /\ Lower(data.s) \in Range(nd.valid_ic) THEN Ret(w, TRUE)
     ELSE Fail(w, id, "'" \o Str(data) \o "' is not one of acceptable values: "
                 \o Join(Sorted([i \in DOMAIN nd.vals |-> Str(nd.vals[i])]
                                \o nd.valid_ic), ", "))

\* EqualsValidator.validate
equals_validate(w, id, data) == Ret(w, PyEq(w.nodes[id].eq, data))

\* NumberValidator, IntegerValidator, DecimalValidator, BooleanValidator,
\* TextValidator .validate: the isinstance test, and a diagnostic when it fails
type_validate(w, id, data, valid, what) ==
  IF valid THEN Ret(w, TRUE)
  ELSE Fail(w, id, "value " \o Str(data) \o " is not valid " \o what)

\* RegexpValidator.validate
regexp_validate(w, id, data) ==
  IF ~IsText(data) THEN Fail(w, id, "Value should be text")
  ELSE IF ~ReCompiles(data.s)
    THEN Fail(w, id, data.s \o " is not a valid regular expression")
  ELSE Ret(w, TRUE)

\* RegexpMatchValidator.validate (IntervalValidator inherits it)
regexp_match_validate(w, id, data) ==
  LET nd == w.nodes[id]
  IN IF ~IsText(data) THEN Fail(w, id, "Value should be text")
     ELSE IF /\ ~\E i \in DOMAIN nd.reject_regexps :
                   ReMatch(nd.reject_regexps[i], data.s)
             /\ \E i \in DOMAIN nd.regexps : ReMatch(nd.regexps[i], data.s)
       THEN Ret(w, TRUE)
     ELSE Fail(w, id, IF nd.message # "" THEN nd.message
                      ELSE data.s \o " does not match regexp")

\* FileValidator.validate: os.path.expanduser fails on a value that is no text
file_validate(w, id, data) ==
  IF ~IsText(data) THEN Raise(w, "AttributeError")
  ELSE IF ~IsFile(data.s) THEN Fail(w, id, "File " \o data.s \o " does not exist")
  ELSE Ret(w, TRUE)

\* PathValidator.validate: pat.search and os.path.expanduser fail on a value
\* that is no text; without allow_replacement and with allow_missing neither
\* is called.
path_validate(w, id, data) ==
  LET nd == w.nodes[id]
      path == IF nd.allow_replacement /\ HasPlaceholder(data.s)
                THEN DirBeforePlaceholder(data.s) ELSE data.s
  IN IF nd.allow_replacement /\ ~IsText(data) THEN Raise(w, "TypeError")
     ELSE IF nd.allow_missing THEN Ret(w, TRUE)
     ELSE IF ~IsText(data) THEN Raise(w, "AttributeError")
     ELSE IF ~IsDir(path) THEN Fail(w, id, "Path " \o path \o " does not exist")
     ELSE Ret(w, TRUE)

\* UrlValidator.validate
url_validate(w, id, data) ==
  IF ~IsText(data) THEN Fail(w, id, "expecting text")
  ELSE IF ~UrlMatch(w.nodes[id].protocols, data.s)
    THEN Fail(w, id, "value " \o data.s \o " is not a valid url")
  ELSE Ret(w, TRUE)

\* QualityValidator.validate, QualityRequirementsValidator.validate: the
\* vocabulary is applied to the value as it is; a value that is no text makes
\* it fail with an error that is not the ValueError the rule catches.
quality_validate(w, id, data, requirements) ==
  IF ~IsText(data) THEN Raise(w, "AttributeError")
  ELSE IF QualityKnown(data.s) THEN Ret(w, TRUE)
  ELSE Fail(w, id, IF requirements
                     THEN "'" \o data.s \o "' is not a valid quality requirement: "
                            \o QualityError(data.s)
                     ELSE QualityError(data.s))

\* acceptable: ', '.join(acceptable[:-2] + ['']) + ' or '.join(acceptable[-2:])
EnglishList(names) ==
  LET n == Len(names)
  IN Join((IF n > 2 THEN SubSeq(names, 1, n - 2) ELSE <<>>) \o <<"">>, ", ")
       \o Join(IF n > 2 THEN SubSeq(names, n - 1, n) ELSE names, " or ")

\* data.index(item) that answers 0 for every item
index_zero(items, item) == 0

\* data.index(item): the 0-based position of the first element equal to item
IndexOf(items, item) ==
  (CHOOSE j \in DOMAIN items :
     /\ PyEq(items[j], item)
     /\ \A k \in 1..(j - 1) : ~PyEq(items[k], item)) - 1

\* Template(msg).safe_substitute(key=key), msg the parts of the template
Substitute(msg, key) ==
  Join([i \in DOMAIN msg |-> IF msg[i] \in {"${key}", "$key"} THEN key ELSE msg[i]],
       "")

RECURSIVE validate(_, _, _)
RECURSIVE select_loop(_, _, _, _, _, _)
RECURSIVE custom_messages(_, _, _, _)
RECURSIVE list_loop(_, _, _, _)
RECURSIVE dict_loop(_, _, _, _)
RECURSIVE key_rules(_, _, _, _)
RECURSIVE required_loop(_, _, _, _)

\* rule.validate(data), rule possibly a wrapper
resolved_validate(r, data) ==
  IF r.exc # "" THEN r
  ELSE Called(validate(r.w, r.id, data), r.id, ErrorsOf(r.w, r.id))
CallValidate(w, id, data) == resolved_validate(Resolve(w, id), data)

\* validate_item, "if rule.validate(item):" back out the diagnostics added
\* since cnt and return True, else go on with the next rule
select_validated(v, self, item, rules, i, cnt) ==
  IF v.exc # "" THEN v
  ELSE IF v.ret THEN Ret(ErrBackOut(v.w, self, ErrCount(v.w, self) - cnt), TRUE)
  ELSE select_loop(v.w, self, item, rules, i + 1, cnt)

\* validate_item, "if rule.validateable(item):"
select_applies(a, self, item, rules, i, cnt) ==
  IF a.exc # "" THEN a
  ELSE IF ~a.ret THEN select_loop(a.w, self, item, rules, i + 1, cnt)
  ELSE select_validated(CallValidate(a.w, rules[i], item),
                        self, item, rules, i, cnt)

\* validate_item, the loop "for rule in rules" from rule i on: ret is TRUE
\* when a rule applied and validated
select_loop(w, self, item, rules, i, cnt) ==
  IF i > Len(rules) THEN Ret(w, FALSE)
  ELSE select_applies(CallValidateable(w, rules[i], item),
                      self, item, rules, i, cnt)

\* validate_item, the loop that adds every rule's custom message
add_custom(w, self, message) ==
  IF message # "" THEN ErrAdd(w, self, message) ELSE w
custom_messages(w, self, rules, i) ==
  IF i > Len(rules) THEN w
  ELSE custom_messages(add_custom(w, self, MessageOf(w, rules[i])),
                       self, rules, i + 1)

\* validate_item, the two generic diagnostics (the backquotes of the first
\* are written as quotes here)
generic_messages(w, self, item, acceptable) ==
  ErrAdd(ErrAdd(w, self, "must be a '" \o acceptable \o "' value"), self,
         IF IsDict(item) THEN "got a dict instead of " \o acceptable
         ELSE IF IsList(item) THEN "got a list instead of " \o acceptable
         ELSE "value '" \o Str(item) \o "' is not valid " \o acceptable)

\* validate_item, "if count == self.errors.count():" after the custom messages
select_generic(w, self, item, rules, cnt) ==
  IF cnt # ErrCount(w, self) THEN Ret(w, FALSE)
  ELSE Ret(generic_messages(w, self, item,
             EnglishList([i \in DOMAIN rules |-> NameOf(w, rules[i])])), FALSE)

\* validate_item, after the loop over the rules
select_done(l, self, item, rules, cnt) ==
  IF l.exc # "" \/ l.ret THEN l
  ELSE IF cnt # ErrCount(l.w, self) THEN Ret(l.w, FALSE)
  ELSE select_generic(custom_messages(l.w, self, rules, 1), self, item, rules, cnt)

\* Validator.validate_item, on return: the record of the selection
selection_logged(r, self, item, rules, cnt) ==
  IF r.exc # "" THEN r
  ELSE [r EXCEPT !.w = Selection(r.w, self, item, rules, cnt,
                                 ErrCount(r.w, self), r.ret)]

\* Validator.validate_item
validate_item(w, self, item, rules) ==
  selection_logged(
    select_done(select_loop(ErrTouch(w, self), self, item, rules, 1,
                            ErrCount(w, self)),
                self, item, rules, ErrCount(w, self)),
    self, item, rules, ErrCount(w, self))

\* ListValidator.validate, the loop "for item in data" from element i on
list_next(v, self, data, i) ==
  IF v.exc # "" THEN v ELSE list_loop(v.w, self, data, i + 1)
list_loop(w, self, data, i) ==
  IF i > Len(data.items) THEN Ret(w, TRUE)
  ELSE IF path_level_exc(ErrorsOf(w, self)) # ""
    THEN Raise(w, path_level_exc(ErrorsOf(w, self)))
  ELSE list_next(
         validate_item(
           ErrPathUpdate(w, self,
             "list:" \o ToString(IndexOf(data.items, data.items[i]))),
           self, data.items[i], w.nodes[self].valid),
         self, data, i)

\* ListValidator.validate, after the loop
list_done(l, self, cnt) ==
  IF l.exc # "" THEN l
  ELSE IF path_level_exc(ErrorsOf(l.w, self)) # ""
    THEN Raise(l.w, path_level_exc(ErrorsOf(l.w, self)))
  ELSE Ret(ErrPathRemove(l.w, self),
           cnt = ErrCount(ErrPathRemove(l.w, self), self))

\* ListValidator.validate
list_validate(w, self, data) ==
  IF ~IsList(data) THEN Fail(w, self, "value must be a list")
  ELSE list_done(list_loop(ErrPathAdd(w, self), self, data, 1), self,
                 ErrCount(w, self))

\* DictValidator.validate, "key_validator.validateable(key) and
\* key_validator.validate(key)" of pair i
key_validated(v, self, key, i) ==
  IF v.exc # "" THEN v
  ELSE IF v.ret THEN RetId(v.w, i)
  ELSE key_rules(v.w, self, key, i + 1)

key_applies(a, self, key, i) ==
  IF a.exc # "" THEN a
  ELSE IF ~a.ret THEN key_rules(a.w, self, key, i + 1)
  ELSE key_validated(CallValidate(a.w, a.w.nodes[self].key_validators[i].kv,
                                  VText(key)),
                     self, key, i)

\* DictValidator.validate, the loop over self.key_validators from pair i on:
\* id is the position of the first pair whose key rule applies to and
\* validates the key, 0 when the loop ends without break.
key_rules(w, self, key, i) ==
  IF i > Len(w.nodes[self].key_validators) THEN RetId(w, 0)
  ELSE key_applies(CallValidateable(w, w.nodes[self].key_validators[i].kv,
                                    VText(key)),
                   self, key, i)

\* Results of choosing the rules of a key: the world, the local variable
\* rules, and the branch taken.
Selected(w, rules, tier) == [w |-> w, exc |-> "", rules |-> rules, tier |-> tier]

\* DictValidator.validate, the else branch of "if key in self.valid" once the
\* loop over self.key_validators has ended with k
rules_found(k, self, before) ==
  IF k.exc # "" THEN [w |-> k.w, exc |-> k.exc, rules |-> <<>>, tier |-> "none"]
  ELSE IF k.id # 0
    THEN Selected(ErrBackOut(k.w, self, ErrCount(k.w, self) - before),
                  <<k.w.nodes[self].key_validators[k.id].vv>>, "key_validator")
  ELSE IF k.w.nodes[self].any_key # <<>>
    THEN Selected(ErrBackOut(k.w, self, ErrCount(k.w, self) - before),
                  k.w.nodes[self].any_key, "any_key")
  ELSE Selected(k.w, <<>>, "none")

\* Rules chosen without a priority: the catch-all rules for every key
catch_all_rules(w, self, key) == Selected(w, w.nodes[self].any_key, "any_key")

\* DictValidator.validate, "Get rules for key, most specific rules will be
\* used"
select_rules(w, self, key) ==
  LET dv == w.nodes[self].dvalid
  IN IF \E i \in DOMAIN dv : dv[i].k = key
       THEN Selected(w, dv[CHOOSE i \in DOMAIN dv : dv[i].k = key].rules,
                     "explicit")
       ELSE rules_found(key_rules(ErrTouch(w, self), self, key, 1), self,
                        ErrCount(w, self))

\* 'key ... is not recognized', with the sorted explicit keys when there are
\* any
not_recognized(dv, key) ==
  "key '" \o key \o "' is not recognized"
    \o (IF dv # <<>>
          THEN ", valid keys: "
                 \o Join(Sorted([i \in DOMAIN dv |-> dv[i].k]), ", ")
          ELSE "")

\* DictValidator.validate, from "if not rules:" to the end of the loop body
key_selected(s, self, key, value) ==
  IF s.exc # "" THEN Raise(s.w, s.exc)
  ELSE IF s.rules = <<>>
    THEN Ret(ErrAdd(Logged(s.w, self, key, s.tier, s.rules), self,
                    not_recognized(s.w.nodes[self].dvalid, key)), FALSE)
  ELSE validate_item(Logged(s.w, self, key, s.tier, s.rules), self, value,
                     s.rules)

\* DictValidator.validate, the branch "if key in self.reject"
key_rejected(w, self, key, msg) ==
  Ret(ErrAdd(Logged(w, self, key, "reject", <<>>), self,
             IF msg # <<>> THEN Substitute(msg, key)
             ELSE "key '" \o key \o "' is forbidden here"), FALSE)

\* DictValidator.validate, the body of "for key, value in data.iteritems()"
\* once the path segment is updated
dict_key(w, self, key, value) ==
  LET rj == w.nodes[self].reject
  IN IF \E j \in DOMAIN rj : rj[j].k = key
       THEN key_rejected(w, self, key,
                         rj[CHOOSE j \in DOMAIN rj : rj[j].k = key].msg)
       ELSE key_selected(select_rules(w, self, key), self, key, value)

\* DictValidator.validate, the loop over the entries from entry i on
dict_next(r, self, data, i) ==
  IF r.exc # "" THEN r ELSE dict_loop(r.w, self, data, i + 1)
dict_loop(w, self, data, i) ==
  IF i > Len(data.items) THEN Ret(w, TRUE)
  ELSE IF path_level_exc(ErrorsOf(w, self)) # ""
    THEN Raise(w, path_level_exc(ErrorsOf(w, self)))
  ELSE dict_next(dict_key(ErrPathUpdate(w, self, "dict:" \o data.items[i].k),
                          self, data.items[i].k, data.items[i].v),
                 self, data, i)

\* DictValidator.validate, the loop "for required in self.required_keys"
required_loop(w, self, data, i) ==
  IF i > Len(w.nodes[self].required_keys) THEN w
  ELSE required_loop(
         IF w.nodes[self].required_keys[i] \notin DictKeys(data)
           THEN ErrAdd(w, self, "key '" \o w.nodes[self].required_keys[i]
                                  \o "' required")
           ELSE w,
         self, data, i + 1)

\* A mapping rule that returns true only when the collector is empty
dict_result_absolute(w, self, cnt) == Ret(w, ErrCount(w, self) = 0)

\* DictValidator.validate, "return count == self.errors.count()"
dict_result(w, self, cnt) == Ret(w, cnt = ErrCount(w, self))

\* DictValidator.validate, after the loop over the entries
dict_done(l, self, data, cnt) ==
  IF l.exc # "" THEN l
  ELSE IF path_level_exc(ErrorsOf(l.w, self)) # ""
    THEN Raise(l.w, path_level_exc(ErrorsOf(l.w, self)))
  ELSE dict_result(required_loop(ErrPathRemove(l.w, self), self, data, 1),
                   self, cnt)

\* DictValidator.validate
dict_validate(w, self, data) ==
  IF ~IsDict(data) THEN Fail(w, self, "value must be a dictionary")
  ELSE dict_done(dict_loop(ErrPathAdd(w, self), self, data, 1), self, data,
                 ErrCount(w, self))

\* <class>.validate(data) of a rule that is no wrapper
validate(w, id, data) ==
  LET kind == w.nodes[id].kind
  IN IF kind = "validator" THEN Raise(w, "NotImplementedError")
     ELSE IF kind = "root" THEN validate_item(w, id, data, w.nodes[id].valid)
     ELSE IF kind = "choice" THEN choice_validate(w, id, data)
     ELSE IF kind = "any" THEN Ret(w, TRUE)
     ELSE IF kind = "equals" THEN equals_validate(w, id, data)
     ELSE IF kind = "number"
       THEN type_validate(w, id, data, IsInt(data) \/ IsFloat(data) \/ IsLong(data),
                          "number")
     ELSE IF kind = "integer"
       THEN type_validate(w, id, data, IsInt(data), "integer")
     ELSE IF kind = "decimal"
       THEN type_validate(w, id, data, IsFloat(data), "decimal number")
     ELSE IF kind = "boolean"
       THEN type_validate(w, id, data, IsBool(data), "boolean")
     ELSE IF kind = "text" THEN type_validate(w, id, data, IsText(data), "text")
     ELSE IF kind = "regexp" THEN regexp_validate(w, id, data)
     ELSE IF kind \in {"regexp_match", "interval"}
       THEN regexp_match_validate(w, id, data)
     ELSE IF kind = "file" THEN file_validate(w, id, data)
     ELSE IF kind = "path" THEN path_validate(w, id, data)
     ELSE IF kind = "url" THEN url_validate(w, id, data)
     ELSE IF kind = "list" THEN list_validate(w, id, data)
     ELSE IF kind = "dict" THEN dict_validate(w, id, data)
     ELSE quality_validate(w, id, data, kind = "quality_requirements")


(***************************************************************************)
(* schema().  A schema document is a tagged value:                         *)
(*   [str |-> s]   a string           [bool |-> b]   a boolean             *)
(*   [val |-> v]   a Python data value (an enum member)                    *)
(*   [arr |-> <<..>>]  a list         [obj |-> f]    a dict, f a function  *)
(*                                                   from keys to values   *)
(* A call returns [doc, exc].                                              *)
(***************************************************************************)
JStr(s) == [str |-> s]
JBool(b) == [bool |-> b]
JVal(v) == [val |-> v]
JArr(xs) == [arr |-> xs]
JObj(f) == [obj |-> f]
JEmpty == JObj(<<>>)

Doc(d) == [doc |-> d, exc |-> ""]
DocRaise(exc) == [doc |-> JEmpty, exc |-> exc]

\* The argument of any_schema: a list, or a generator expression.
AsList(xs) == [gen |-> FALSE, elems |-> xs]
AsGenerator(xs) == [gen |-> TRUE, elems |-> xs]

\* any_schema(schema_list): len() of a generator raises TypeError
any_schema(schema_list) ==
  IF schema_list.gen THEN DocRaise("TypeError")
  ELSE IF Len(schema_list.elems) = 1 THEN Doc(schema_list.elems[1])
  ELSE Doc(JObj("anyOf" :> JArr(schema_list.elems)))

\* The exception the first failing call of a sequence of calls raises.
FirstExc(rs) ==
  IF \E i \in DOMAIN rs : rs[i].exc # ""
    THEN rs[CHOOSE i \in DOMAIN rs :
              rs[i].exc # "" /\ \A j \in 1..(i - 1) : rs[j].exc = ""].exc
    ELSE ""

\* A schema that reports the number of diagnostics in the collector
schema_of_collector(w, id) == Doc(JVal(VInt(ErrCount(w, id))))

RECURSIVE schema(_, _)

\* [v.schema() for v in rules]
\* [v.schema() for v in rules], once every call has ended
schemas_listed(rs) ==
  IF FirstExc(rs) # "" THEN DocRaise(FirstExc(rs))
  ELSE Doc([i \in DOMAIN rs |-> rs[i].doc])
SchemaList(w, rules) == schemas_listed([i \in DOMAIN rules |-> schema(w, rules[i])])

\* any_schema([v.schema() for v in rules])
any_of_listed(l) == IF l.exc # "" THEN l ELSE any_schema(AsList(l.doc))
AnyOfRules(w, rules) == any_of_listed(SchemaList(w, rules))

\* RegexpMatchValidator.schema
regexp_match_schema(w, id) ==
  LET nd == w.nodes[id]
      sch == any_schema(AsList([i \in DOMAIN nd.regexps |->
               JObj("type" :> JStr("string") @@ "pattern" :> JStr(nd.regexps[i]))]))
      rej == any_schema(AsList([i \in DOMAIN nd.reject_regexps |->
               JObj("pattern" :> JStr(nd.reject_regexps[i]))]))
  IN IF nd.reject_regexps # <<>>
       THEN Doc(JObj("not" :> rej.doc @@ sch.doc.obj))
       ELSE sch

\* DictValidator.schema, the loop over self.valid.iteritems(): the first key
\* whose any_schema call raises ends it
properties_listed(dv, rs) ==
  IF FirstExc(rs) # "" THEN DocRaise(FirstExc(rs))
  ELSE Doc(JObj([k \in {dv[i].k : i \in DOMAIN dv} |->
                  rs[CHOOSE i \in DOMAIN dv : dv[i].k = k].doc]))
dict_properties(w, id) ==
  properties_listed(w.nodes[id].dvalid,
                    [i \in DOMAIN w.nodes[id].dvalid |->
                       any_schema(AsGenerator(w.nodes[id].dvalid[i].rules))])

\* DictValidator.schema, schema['required']
dict_required(required_keys) ==
  IF required_keys # <<>>
    THEN "required" :> JArr([i \in DOMAIN required_keys |-> JStr(required_keys[i])])
    ELSE <<>>

\* DictValidator.schema, from "if self.required_keys:" on
dict_described(props, extra, nd) ==
  IF props.exc # "" THEN props
  ELSE IF nd.any_key # <<>> /\ extra.exc # "" THEN extra
  ELSE Doc(JObj("type" :> JStr("object") @@ "properties" :> props.doc
                @@ dict_required(nd.required_keys)
                @@ "additionalProperties" :>
                     (IF nd.any_key # <<>> THEN extra.doc ELSE JBool(FALSE))))

\* DictValidator.schema
dict_schema(w, id) ==
  dict_described(dict_properties(w, id), AnyOfRules(w, w.nodes[id].any_key),
                 w.nodes[id])

\* ListValidator.schema
list_described(items) ==
  IF items.exc # "" THEN items
  ELSE Doc(JObj("type" :> JStr("array") @@ "items" :> items.doc))
list_schema(w, id) == list_described(AnyOfRules(w, w.nodes[id].valid))

TypeDoc(type) == Doc(JObj("type" :> JStr(type)))
FormatDoc(format) ==
  Doc(JObj("type" :> JStr("string") @@ "format" :> JStr(format)))

\* rule.schema(): LazyValidator.schema for a wrapper, else the class's
\* schema.  Validator.schema raises NotImplementedError(self.__name__), and
\* an instance has no __name__.
schema(w, id) ==
  LET nd == w.nodes[id]
      kind == nd.kind
  IN IF kind = "lazy"
       THEN IF nd.validator = 0 THEN Doc(JEmpty)
            ELSE IF nd.validator = -1 THEN DocRaise("AttributeError")
            ELSE schema(w, nd.validator)
     ELSE IF kind = "validator" THEN DocRaise("AttributeError")
     ELSE IF kind = "root" THEN AnyOfRules(w, nd.valid)
     ELSE IF kind = "choice"
       THEN Doc(JObj("enum" :>
              JArr([i \in DOMAIN nd.vals |-> JVal(nd.vals[i])]
                   \o [i \in DOMAIN nd.valid_ic |-> JVal(VText(nd.valid_ic[i]))])))
     ELSE IF kind = "any" THEN Doc(JEmpty)
     ELSE IF kind = "equals" THEN Doc(JObj("enum" :> JArr(<<JVal(nd.eq)>>)))
     ELSE IF kind \in {"number", "decimal"} THEN TypeDoc("number")
     ELSE IF kind = "integer" THEN TypeDoc("integer")
     ELSE IF kind = "boolean" THEN TypeDoc("boolean")
     ELSE IF kind = "text" THEN TypeDoc("string")
     ELSE IF kind = "regexp" THEN FormatDoc("regex")
     ELSE IF kind \in {"regexp_match", "interval"} THEN regexp_match_schema(w, id)
     ELSE IF kind = "file" THEN FormatDoc("file")
     ELSE IF kind = "path" THEN FormatDoc("path")
     ELSE IF kind = "url" THEN FormatDoc("uri")
     ELSE IF kind = "list" THEN list_schema(w, id)
     ELSE IF kind = "dict" THEN dict_schema(w, id)
     ELSE IF kind = "quality" THEN FormatDoc("quality")
     ELSE FormatDoc("qualityRequirements")



(***************************************************************************)
(* The state machine.  Callers build rules with the construction calls and *)
(* then call validate and schema; `last` keeps the last such call.         *)
(***************************************************************************)
NoCall ==
  [op |-> "none", id |-> 0, data |-> VNone, ret |-> FALSE, exc |-> "",
   before |-> <<>>, calls0 |-> 0, log |-> <<>>, doc |-> JEmpty]

\* The frame of a validate call a thread is running on a mapping rule: the
\* collector operation it performs next (pc), the argument, and the locals of
\* DictValidator.validate (i the position in data.iteritems(), cnt the local
\* count, eb errors_before_key_val, rules, q the position in required_keys)
\* and of validate_item (vcnt its local count, j the position in rules); c is
\* the value of self.errors.count() read for a back_out_errors argument.
Idle ==
  [pc |-> "idle", data |-> VNone, i |-> 0, cnt |-> 0, eb |-> 0, vcnt |-> 0,
   c |-> 0, j |-> 0, q |-> 0, rules |-> <<>>, ret |-> FALSE, exc |-> ""]

\* The threads of the program: their frames, the order in which their calls
\* started, and whether a call took a step while the other was running.
NoThreads == [procs |-> <<Idle, Idle>>, order |-> <<>>, mixed |-> FALSE]

Init ==
  /\ nodes = <<>>
  /\ calls = 0
  /\ last = NoCall
  /\ ops = 0
  /\ runs = 0
  /\ threads = NoThreads

\* The world of the current state, and of the state the last call started in.
Now == World(nodes, calls)
Before == World(last.before, last.calls0)

\* A construction call that returned: its effect on the heap.
Built(r) ==
  /\ r.exc = ""
  /\ nodes' = r.w.nodes
  /\ calls' = r.w.calls
  /\ ops' = ops + 1
  /\ UNCHANGED <<last, runs, threads>>


\* The call op of rule id on data has ended with r
Validated(r, op, id, data) ==
  /\ nodes' = r.w.nodes
  /\ calls' = r.w.calls
  /\ last' = [op |-> op, id |-> id, data |-> data, ret |-> r.ret,
              exc |-> r.exc, before |-> nodes, calls0 |-> calls,
              log |-> r.w.log, doc |-> JEmpty]
  /\ runs' = runs + 1
  /\ UNCHANGED <<ops, threads>>

\* rule.validate(data), called by the owner of the tree
Validate(id, data) ==
  Validated(CallValidate(Now, id, data), "validate", id, data)

\* rule.schema() has ended with r
Described(r, id) ==
  /\ last' = [op |-> "schema", id |-> id, data |-> VNone, ret |-> r.exc = "",
              exc |-> r.exc, before |-> nodes, calls0 |-> calls,
              log |-> <<>>, doc |-> r.doc]
  /\ runs' = runs + 1
  /\ UNCHANGED <<nodes, calls, ops, threads>>

\* rule.schema(), called by the owner of the tree
Schema(id) == Described(schema(Now, id), id)

(***************************************************************************)
(* SpecRule: one rule of any registered kind, created by the factory with  *)
(* any of its constructor options, configured through its own accept and   *)
(* reject, then validated or asked for its schema directly.                *)
(***************************************************************************)
RuleMessages == {"", "custom"}
RuleOpts(kind) ==
  IF kind = "path"
    THEN {[NoOpts EXCEPT !.allow_replacement = r, !.allow_missing = m] :
            r \in BOOLEAN, m \in BOOLEAN}
  ELSE IF kind = "url"
    THEN {NoOpts, [NoOpts EXCEPT !.protocols = <<"ftp">>]}
  ELSE IF kind \in {"regexp_match", "text"}
    THEN {[NoOpts EXCEPT !.message = m] : m \in RuleMessages}
  ELSE {NoOpts}

ChoiceValues == {VText("a"), VText("Foo"), VInt(1), VLong(1)}
EqualsValues ==
  {VText("a"), VInt(1), VList(<<VInt(1)>>), VDict(<<KV("a", VInt(1))>>)}
Patterns == {"a", ".", "("}

RuleData ==
  { VText("a"), VText("Foo"), VText("FOO"), VText("("), VText("1 day"),
    VText("/tmp"), VText("/tmp/f"), VText("/tmp/{{x}}"), VText("/nowhere"),
    VText("http://x"), VText("720p"),
    VInt(1), VInt(2), VLong(1), VFloat(3), VFloat(2), VBool(TRUE), VNone,
    VList(<<>>), VList(<<VInt(1)>>), VDict(<<>>), VDict(<<KV("a", VInt(1))>>) }

\* factory(name, **options)
RuleCreate ==
  /\ nodes = <<>>
  /\ \E kind \in registry : \E opts \in RuleOpts(kind) :
       Built(factory(Now, kind, 0, opts))

RuleChoiceAccept ==
  /\ nodes # <<>> /\ nodes[1].kind = "choice"
  /\ ops <= MaxLeafAccepts
  /\ \E value \in ChoiceValues : \E ignore_case \in BOOLEAN :
       Built(choice_accept(Now, 1, value, ignore_case))

RuleEqualsAccept ==
  /\ nodes # <<>> /\ nodes[1].kind \in {"equals", "any"}
  /\ ops <= MaxLeafAccepts
  /\ \E value \in EqualsValues : Built(equals_accept(Now, 1, value))

RuleRegexpAccept ==
  /\ nodes # <<>> /\ nodes[1].kind \in {"regexp_match", "interval"}
  /\ ops <= MaxLeafAccepts
  /\ \E regexp \in Patterns : \E message \in RuleMessages :
       Built(regexp_accept(Now, 1, regexp, message))

RuleRegexpReject ==
  /\ nodes # <<>> /\ nodes[1].kind \in {"regexp_match", "interval"}
  /\ ops <= MaxLeafAccepts
  /\ \E regexp \in Patterns : Built(regexp_reject(Now, 1, regexp))

RuleValidate ==
  /\ nodes # <<>> /\ runs < MaxCalls
  /\ \E data \in RuleData : Validate(1, data)

RuleSchema == nodes # <<>> /\ runs < MaxCalls /\ Schema(1)

NextRule ==
  \/ RuleCreate
  \/ RuleChoiceAccept
  \/ RuleEqualsAccept
  \/ RuleRegexpAccept
  \/ RuleRegexpReject
  \/ RuleValidate
  \/ RuleSchema

SpecRule == Init /\ [][NextRule]_vars

(***************************************************************************)
(* SpecSelect: trees of root, list and dict rules over text and integer    *)
(* leaves, built with accept, then validated from the top.                 *)
(***************************************************************************)
SelectKinds == {"text", "integer", "list", "dict"}
SelectOpts(kind) ==
  IF kind = "text" THEN {[NoOpts EXCEPT !.message = m] : m \in RuleMessages}
  ELSE {NoOpts}

SelectData ==
  { VText("a"), VInt(2), VList(<<>>), VList(<<VText("a")>>),
    VList(<<VInt(2)>>), VList(<<VInt(2), VText("a")>>),
    VList(<<VText("a"), VInt(2)>>),
    VList(<<VText("a"), VInt(2), VText("b")>>),
    VList(<<VText("a"), VText("a"), VList(<<>>)>>),
    VList(<<VDict(<<>>), VText("a"), VText("b")>>),
    VList(<<VInt(2), VInt(2)>>),
    VList(<<VInt(2), VList(<<VText("a")>>)>>),
    VList(<<VInt(2), VDict(<<KV("a", VText("a"))>>)>>),
    VDict(<<KV("a", VText("a"))>>), VDict(<<KV("a", VInt(2))>>) }

\* factory(), factory('list')
SelectCreate ==
  /\ nodes = <<>>
  /\ \E kind \in {"root", "list"} : Built(factory(Now, kind, 0, NoOpts))

\* root.accept(name, **options), list.accept(name, **options)
SelectAccept ==
  /\ Len(nodes) < MaxNodes /\ runs = 0
  /\ \E self \in DOMAIN nodes : \E kind \in SelectKinds :
       \E opts \in SelectOpts(kind) :
         /\ nodes[self].kind \in {"root", "list"}
         /\ Built(child_accept(Now, self, ByName(kind), opts))

\* dict.accept(name, key='a', **options)
SelectDictAccept ==
  /\ Len(nodes) < MaxNodes /\ runs = 0
  /\ \E self \in DOMAIN nodes : \E kind \in SelectKinds :
       \E opts \in SelectOpts(kind) :
         /\ nodes[self].kind = "dict"
         /\ Built(dict_accept(Now, self, ByName(kind), "a", FALSE, opts))

\* The tree is validated once.
SelectValidate ==
  /\ nodes # <<>> /\ runs = 0
  /\ \E data \in SelectData : Validate(1, data)

NextSelect ==
  \/ SelectCreate
  \/ SelectAccept
  \/ SelectDictAccept
  \/ SelectValidate

SpecSelect == Init /\ [][NextSelect]_vars

(***************************************************************************)
(* SpecDict: one mapping rule, configured with accept, reject_key,         *)
(* accept_any_key, accept_valid_keys and require_key, then validated on a  *)
(* mapping or asked for its schema.                                        *)
(***************************************************************************)
ValueKinds == {"text", "integer"}
KeyTypes == {<<"text">>, <<"interval">>}
RejectMessages == {<<>>, <<"no ", "$key">>}
RequiredKeys == {"a", "b"}
DataKeys == {"a", "1 day"}
DataValues == {VText("a"), VInt(2)}

\* The mappings over DataKeys, in every iteration order of their keys.
DictData ==
  {VDict(<<>>)}
    \cup {VDict(<<KV(k, v)>>) : k \in DataKeys, v \in DataValues}
    \cup {VDict(<<KV(ks[1], v1), KV(ks[2], v2)>>) :
            ks \in {<<"a", "1 day">>, <<"1 day", "a">>},
            v1 \in DataValues, v2 \in DataValues}

\* factory('dict')
DictCreate ==
  /\ nodes = <<>>
  /\ Built(factory(Now, "dict", 0, NoOpts))

\* A configuration call on the mapping rule is possible.
Configurable ==
  /\ nodes # <<>> /\ nodes[1].kind = "dict"
  /\ ops <= MaxOps /\ runs = 0

\* dict.accept(name, key='a', required=...)
DictAccept ==
  /\ Configurable
  /\ \E kind \in ValueKinds : \E required \in BOOLEAN :
       Built(dict_accept(Now, 1, ByName(kind), "a", required, NoOpts))

\* dict.reject_key('a', message)
DictRejectKey ==
  /\ Configurable
  /\ \E message \in RejectMessages :
       Built(Ret(reject_key(Now, 1, "a", message), TRUE))

\* dict.require_key(key)
DictRequireKey ==
  /\ Configurable
  /\ \E key \in RequiredKeys : Built(Ret(require_key(Now, 1, key), TRUE))

\* dict.accept_any_key(name)
DictAcceptAnyKey ==
  /\ Configurable
  /\ \E kind \in ValueKinds : Built(accept_any_key(Now, 1, ByName(kind), NoOpts))

\* dict.accept_valid_keys(name, key_type=...)
DictAcceptValidKeys ==
  /\ Configurable
  /\ \E kind \in ValueKinds : \E key_type \in KeyTypes :
       Built(accept_valid_keys(Now, 1, ByName(kind), key_type, 0, NoOpts))

\* The configured rule is used once: validated, or asked for its schema.
DictValidate ==
  /\ nodes # <<>> /\ runs = 0
  /\ \E data \in DictData : Validate(1, data)

DictSchema == nodes # <<>> /\ runs = 0 /\ Schema(1)

NextDict ==
  \/ DictCreate
  \/ DictAccept
  \/ DictRejectKey
  \/ DictRequireKey
  \/ DictAcceptAnyKey
  \/ DictAcceptValidKeys
  \/ DictValidate
  \/ DictSchema

SpecDict == Init /\ [][NextDict]_vars

(***************************************************************************)
(* SpecBuild: construction only.  Rules are created, and accepted into     *)
(* root, list and dict rules by kind name, as built rules, or as           *)
(* constructors; no rule is accepted into itself or into a rule below it.  *)
(***************************************************************************)
RECURSIVE AncestorsFuel(_, _, _)
\* The rules on the parent chain of rule id
AncestorsFuel(ns, id, fuel) ==
  IF ns[id].parent = 0 \/ fuel = 0 THEN {}
  ELSE {ns[id].parent} \cup AncestorsFuel(ns, ns[id].parent, fuel - 1)
Ancestors(ns, id) == AncestorsFuel(ns, id, Len(ns))

\* The values accept can be given for a child of rule self
BuildValues(self) ==
  {ByName("text"), ByFunc("text")}
    \cup {ByNode(x) : x \in DOMAIN nodes \ ({self} \cup Ancestors(nodes, self))}

\* A construction call that returned, within the bounds
BuiltWithin(r) == Len(r.w.nodes) <= MaxNodes /\ Built(r)

\* factory(name)
BuildCreate ==
  /\ ops <= MaxOps
  /\ \E kind \in {"root", "list", "dict", "text"} :
       BuiltWithin(factory(Now, kind, 0, NoOpts))

\* root.accept(value), list.accept(value)
BuildAccept ==
  /\ ops <= MaxOps
  /\ \E self \in DOMAIN nodes : \E value \in BuildValues(self) \cup {ByName("list")} :
       /\ nodes[self].kind \in {"root", "list"}
       /\ BuiltWithin(child_accept(Now, self, value, NoOpts))

\* dict.accept(value, key='a')
BuildDictAccept ==
  /\ ops <= MaxOps
  /\ \E self \in DOMAIN nodes : \E value \in BuildValues(self) :
       /\ nodes[self].kind = "dict"
       /\ BuiltWithin(dict_accept(Now, self, value, "a", FALSE, NoOpts))

\* dict.accept_any_key(value)
BuildAcceptAnyKey ==
  /\ ops <= MaxOps
  /\ \E self \in DOMAIN nodes : \E value \in BuildValues(self) :
       /\ nodes[self].kind = "dict"
       /\ BuiltWithin(accept_any_key(Now, self, value, NoOpts))

\* dict.accept_valid_keys('text', key_type='text'),
\* dict.accept_valid_keys('text', key_validator=rule)
BuildAcceptValidKeys ==
  /\ ops <= MaxOps
  /\ \E self \in DOMAIN nodes :
       /\ nodes[self].kind = "dict"
       /\ \/ BuiltWithin(accept_valid_keys(Now, self, ByName("text"), <<"text">>,
                                           0, NoOpts))
          \/ \E x \in DOMAIN nodes \ ({self} \cup Ancestors(nodes, self)) :
               /\ nodes[x].kind # "lazy"
               /\ BuiltWithin(accept_valid_keys(Now, self, ByName("text"), <<>>,
                                                x, NoOpts))

NextBuild ==
  \/ BuildCreate
  \/ BuildAccept
  \/ BuildDictAccept
  \/ BuildAcceptAnyKey
  \/ BuildAcceptValidKeys

SpecBuild == Init /\ [][NextBuild]_vars

(***************************************************************************)
(* SpecLazy: the mapping rule that accepts, under key child, a deferred    *)
(* copy of itself, validated on nested mappings.                           *)
(***************************************************************************)
RECURSIVE LazyLevel(_)
\* The inputs of nesting depth n or less
LazyLevel(n) ==
  IF n = 0 THEN {VInt(5), VText("a")}
  ELSE {VDict(<<>>)}
         \cup {VDict(<<KV(k, v)>>) : k \in {"child", "x"}, v \in LazyLevel(n - 1)}
LazyData == {d \in LazyLevel(MaxDepth) : IsDict(d)}

\* The owner calls the constructor once.
LazyCreate ==
  /\ nodes = <<>>
  /\ Built(CallFunc(Now, "self_dict"))

LazyValidate ==
  /\ nodes # <<>> /\ runs <= MaxCalls
  /\ \E data \in LazyData : Validate(1, data)

NextLazy ==
  \/ LazyCreate
  \/ LazyValidate

SpecLazy == Init /\ [][NextLazy]_vars

(***************************************************************************)
(* SpecSchema: a root or list rule accepting rules by kind name and by     *)
(* constructor, validated and asked for its schema in any order.           *)
(***************************************************************************)
SchemaValues ==
  {ByName("text"), ByName("integer"), ByName("list"), ByFunc("text"),
   ByFunc("self_dict")}

SchemaData ==
  { VText("a"), VInt(2), VList(<<>>), VList(<<VText("a")>>),
    VDict(<<>>), VDict(<<KV("child", VDict(<<>>))>>) }

\* factory(), factory('list')
SchemaCreate ==
  /\ nodes = <<>>
  /\ \E kind \in {"root", "list"} : Built(factory(Now, kind, 0, NoOpts))

\* root.accept(value), list.accept(value)
SchemaAccept ==
  /\ Len(nodes) < MaxNodes - 1 /\ runs = 0
  /\ \E self \in DOMAIN nodes : \E value \in SchemaValues :
       /\ nodes[self].kind \in {"root", "list"}
       /\ Built(child_accept(Now, self, value, NoOpts))

SchemaValidate ==
  /\ nodes # <<>> /\ runs <= MaxCalls
  /\ \E data \in SchemaData : Validate(1, data)

SchemaDescribe == nodes # <<>> /\ runs <= MaxCalls /\ Schema(1)

NextSchema ==
  \/ SchemaCreate
  \/ SchemaAccept
  \/ SchemaValidate
  \/ SchemaDescribe

SpecSchema == Init /\ [][NextSchema]_vars

(***************************************************************************)
(* SpecThreads: two threads call validate on one mapping rule.  A step of  *)
(* a thread is one operation on the shared collector (count, add,          *)
(* back_out_errors, path_add_level, path_update_value, path_remove_level)  *)
(* together with the code of DictValidator.validate and validate_item that *)
(* follows it up to the next operation; the steps of the two threads       *)
(* interleave freely.  The rules under the keys are type rules: one that   *)
(* applies to a value validates it without touching the collector, and the *)
(* mapping rule has no key_validators.                                     *)
(***************************************************************************)
Stepped(w, p) == [w |-> w, p |-> p]

\* The frame of a call that has returned ret or raised exc
returned(p, ret, exc) ==
  [Idle EXCEPT !.pc = "done", !.data = p.data, !.ret = ret, !.exc = exc]

\* "for key, value in data.iteritems()": entry i, or the end of the loop
next_key(p, i) ==
  [p EXCEPT !.i = i,
            !.pc = IF i > Len(p.data.items) THEN "close" ELSE "update"]

\* "for required in self.required_keys" from position q on: the next
\* missing key, or "return count == self.errors.count()"
RECURSIVE next_required(_, _, _)
next_required(nd, p, q) ==
  IF q > Len(nd.required_keys) THEN [p EXCEPT !.q = q, !.pc = "count_result"]
  ELSE IF nd.required_keys[q] \notin DictKeys(p.data)
    THEN [p EXCEPT !.q = q, !.pc = "add_required"]
  ELSE next_required(nd, p, q + 1)

\* validate_item, "for rule in rules" from rule j on: the first rule that
\* applies to the item and validates it, 0 when there is none
RECURSIVE passing_rule(_, _, _, _)
passing_rule(w, rules, item, j) ==
  IF j > Len(rules) THEN 0
  ELSE IF CallValidateable(w, rules[j], item).ret THEN j
  ELSE passing_rule(w, rules, item, j + 1)

\* validate_item, "for rule in rules: if rule.message" from rule j on
RECURSIVE next_custom(_, _, _)
next_custom(w, p, j) ==
  IF j > Len(p.rules) THEN [p EXCEPT !.j = j, !.pc = "count_generic"]
  ELSE IF MessageOf(w, p.rules[j]) # ""
    THEN [p EXCEPT !.j = j, !.pc = "add_custom"]
  ELSE next_custom(w, p, j + 1)

\* DictValidator.validate, after path_update_value: the branch for the key
key_branch(nd, p, key) ==
  IF \E r \in DOMAIN nd.reject : nd.reject[r].k = key
    THEN [p EXCEPT !.pc = "add_reject"]
  ELSE IF \E r \in DOMAIN nd.dvalid : nd.dvalid[r].k = key
    THEN [p EXCEPT !.pc = "count_item",
                   !.rules = nd.dvalid[CHOOSE r \in DOMAIN nd.dvalid :
                                          nd.dvalid[r].k = key].rules]
  ELSE [p EXCEPT !.pc = "count_before"]

\* A step that starts with self.errors.count()
count_step(w, self, p, n) ==
  Stepped(ErrTouch(w, self),
    CASE p.pc = "count_dict" -> [p EXCEPT !.cnt = n, !.pc = "open"]
      [] p.pc = "count_before" ->
           [p EXCEPT !.eb = n, !.rules = w.nodes[self].any_key,
                     !.pc = IF w.nodes[self].any_key # <<>>
                              THEN "count_found" ELSE "add_unrecognized"]
      [] p.pc = "count_found" -> [p EXCEPT !.c = n, !.pc = "backout_found"]
      [] p.pc = "count_item" ->
           [p EXCEPT !.vcnt = n,
                     !.pc = IF passing_rule(w, p.rules,
                                            p.data.items[p.i].v, 1) # 0
                              THEN "count_valid" ELSE "count_nomatch"]
      [] p.pc = "count_valid" -> [p EXCEPT !.c = n, !.pc = "backout_valid"]
      [] p.pc = "count_nomatch" ->
           IF p.vcnt = n THEN next_custom(w, p, 1) ELSE next_key(p, p.i + 1)
      [] p.pc = "count_generic" ->
           IF p.vcnt = n THEN [p EXCEPT !.pc = "add_generic"]
           ELSE next_key(p, p.i + 1)
      [] OTHER -> returned(p, p.cnt = n, ""))

\* The diagnostic a step that starts with self.errors.add(...) logs
add_text(w, self, p) ==
  LET nd == w.nodes[self]
      key == p.data.items[p.i].k
      item == p.data.items[p.i].v
      acceptable == EnglishList([r \in DOMAIN p.rules |->
                                   NameOf(w, p.rules[r])])
      msg == nd.reject[CHOOSE r \in DOMAIN nd.reject :
                         nd.reject[r].k = key].msg
  IN CASE p.pc = "add_notdict" -> "value must be a dictionary"
       [] p.pc = "add_reject" ->
            IF msg # <<>> THEN Substitute(msg, key)
            ELSE "key '" \o key \o "' is forbidden here"
       [] p.pc = "add_unrecognized" -> not_recognized(nd.dvalid, key)
       [] p.pc = "add_custom" -> MessageOf(w, p.rules[p.j])
       [] p.pc = "add_generic" -> "must be a '" \o acceptable \o "' value"
       [] p.pc = "add_got" ->
            IF IsDict(item) THEN "got a dict instead of " \o acceptable
            ELSE IF IsList(item) THEN "got a list instead of " \o acceptable
            ELSE "value '" \o Str(item) \o "' is not valid " \o acceptable
       [] OTHER -> "key '" \o nd.required_keys[p.q] \o "' required"

\* A step that starts with self.errors.add(...)
add_step(w, self, p) ==
  Stepped(ErrAdd(w, self, add_text(w, self, p)),
    CASE p.pc = "add_notdict" -> returned(p, FALSE, "")
      [] p.pc = "add_custom" -> next_custom(w, p, p.j + 1)
      [] p.pc = "add_generic" -> [p EXCEPT !.pc = "add_got"]
      [] p.pc = "add_required" -> next_required(w.nodes[self], p, p.q + 1)
      [] OTHER -> next_key(p, p.i + 1))

\* A step that starts with self.errors.back_out_errors(...)
back_out_step(w, self, p) ==
  IF p.pc = "backout_found"
    THEN Stepped(ErrBackOut(w, self, p.c - p.eb), [p EXCEPT !.pc = "count_item"])
    ELSE Stepped(ErrBackOut(w, self, p.c - p.vcnt), next_key(p, p.i + 1))

\* The step self.errors.path_add_level()
open_step(w, self, p) == Stepped(ErrPathAdd(w, self), next_key(p, 1))

\* A step that starts with self.errors.path_update_value('dict:%s' % key)
update_step(w, self, p, exc) ==
  IF exc # "" THEN Stepped(ErrTouch(w, self), returned(p, FALSE, exc))
  ELSE Stepped(ErrPathUpdate(w, self, "dict:" \o p.data.items[p.i].k),
               key_branch(w.nodes[self], p, p.data.items[p.i].k))

\* The step self.errors.path_remove_level() and the code after the loop
close_step(w, self, p, exc) ==
  IF exc # "" THEN Stepped(ErrTouch(w, self), returned(p, FALSE, exc))
  ELSE Stepped(ErrPathRemove(w, self), next_required(w.nodes[self], p, 1))

\* A call is in progress once it has operated on the collector
InProgress(p) == p.pc \notin {"idle", "done", "count_dict", "add_notdict"}

\* Thread t has taken the step s
Step(t, s) ==
  /\ nodes' = s.w.nodes
  /\ threads' =
       [threads EXCEPT
          !.procs[t] = s.p,
          !.order = IF InProgress(threads.procs[t]) THEN @ ELSE Append(@, t),
          !.mixed = @ \/ InProgress(threads.procs[3 - t])]
  /\ UNCHANGED <<calls, last, ops, runs>>

ThreadData ==
  { VDict(<<KV("a", VText("x"))>>), VDict(<<KV("a", VInt(2))>>),
    VDict(<<KV("b", VText("x"))>>), VText("x") }

\* factory('dict')
ThreadsCreate == nodes = <<>> /\ Built(factory(Now, "dict", 0, NoOpts))

\* dict.accept('text', key='a'), dict.accept('text', key='a', required=True),
\* dict.accept_any_key('text')
ThreadsAccept ==
  /\ nodes # <<>> /\ ops < MaxOps /\ threads = NoThreads
  /\ \E attach \in {"key", "required", "any"} :
       Built(IF attach = "any"
               THEN accept_any_key(Now, 1, ByName("text"), NoOpts)
               ELSE dict_accept(Now, 1, ByName("text"), "a",
                                attach = "required", NoOpts))

\* dict.reject_key('b')
ThreadsReject ==
  /\ nodes # <<>> /\ ops < MaxOps /\ threads = NoThreads
  /\ Built(Ret(reject_key(Now, 1, "b", <<>>), TRUE))

\* A thread calls dict.validate(data)
ThreadBegin ==
  /\ nodes # <<>>
  /\ \E t \in 1..2 : \E data \in ThreadData :
       /\ threads.procs[t].pc = "idle"
       /\ threads' = [threads EXCEPT !.procs[t] =
                        [Idle EXCEPT !.data = data,
                                     !.pc = IF IsDict(data) THEN "count_dict"
                                            ELSE "add_notdict"]]
       /\ UNCHANGED <<nodes, calls, last, ops, runs>>

ThreadCount ==
  \E t \in 1..2 :
    /\ threads.procs[t].pc \in
         {"count_dict", "count_before", "count_found", "count_item",
          "count_valid", "count_nomatch", "count_generic", "count_result"}
    /\ Step(t, count_step(Now, 1, threads.procs[t], ErrCount(Now, 1)))

ThreadAdd ==
  \E t \in 1..2 :
    /\ threads.procs[t].pc \in
         {"add_notdict", "add_reject", "add_unrecognized", "add_custom",
          "add_generic", "add_got", "add_required"}
    /\ Step(t, add_step(Now, 1, threads.procs[t]))

ThreadBackOut ==
  \E t \in 1..2 :
    /\ threads.procs[t].pc \in {"backout_found", "backout_valid"}
    /\ Step(t, back_out_step(Now, 1, threads.procs[t]))

ThreadPathAdd ==
  \E t \in 1..2 :
    /\ threads.procs[t].pc = "open"
    /\ Step(t, open_step(Now, 1, threads.procs[t]))

ThreadPathUpdate ==
  \E t \in 1..2 :
    /\ threads.procs[t].pc = "update"
    /\ Step(t, update_step(Now, 1, threads.procs[t],
                           path_level_exc(ErrorsOf(Now, 1))))

ThreadPathRemove ==
  \E t \in 1..2 :
    /\ threads.procs[t].pc = "close"
    /\ Step(t, close_step(Now, 1, threads.procs[t],
                          path_level_exc(ErrorsOf(Now, 1))))

NextThreads ==
  \/ ThreadsCreate
  \/ ThreadsAccept
  \/ ThreadsReject
  \/ ThreadBegin
  \/ ThreadCount
  \/ ThreadAdd
  \/ ThreadBackOut
  \/ ThreadPathAdd
  \/ ThreadPathUpdate
  \/ ThreadPathRemove

SpecThreads == Init /\ [][NextThreads]_vars

(***************************************************************************)
(* SpecWrapper: a root rule accepting constructors, some of which return   *)
(* objects that are no rules, validated several times.                     *)
(***************************************************************************)
WrapperFuncs == {"text", "not_a_rule", "wrapped_text"}

WrapperData == {VText("a"), VInt(2), VList(<<>>)}

\* factory()
WrapperCreate == nodes = <<>> /\ Built(factory(Now, "root", 0, NoOpts))

\* root.accept(func), root.accept('integer')
WrapperAccept ==
  /\ nodes # <<>> /\ ops < MaxOps /\ runs = 0
  /\ \E value \in {ByFunc(f) : f \in WrapperFuncs} \cup {ByName("integer")} :
       Built(child_accept(Now, 1, value, NoOpts))

\* root.validate(data)
WrapperValidate ==
  /\ nodes # <<>> /\ runs <= MaxCalls + 1
  /\ \E data \in WrapperData : Validate(1, data)

NextWrapper ==
  \/ WrapperCreate
  \/ WrapperAccept
  \/ WrapperValidate

SpecWrapper == Init /\ [][NextWrapper]_vars

(***************************************************************************)
(* SpecNested: sequence and mapping rules nested in one another, with      *)
(* rejected keys and with constructors that fail on first use, validated   *)
(* several times over data nested as deeply; the collector is kept from    *)
(* one call to the next.                                                   *)
(***************************************************************************)
NestedValues ==
  {ByName("text"), ByName("list"), ByName("dict"), ByFunc("not_a_rule")}

NestedData ==
  { VList(<<VList(<<VInt(2)>>)>>),
    VList(<<VDict(<<KV("b", VInt(2))>>)>>),
    VList(<<VDict(<<KV("a", VText("x"))>>)>>),
    VDict(<<KV("a", VText("x"))>>),
    VDict(<<KV("a", VList(<<VInt(2)>>))>>),
    VDict(<<KV("a", VDict(<<KV("b", VInt(2))>>)), KV("b", VText("x"))>> ) }

\* factory(), factory('list'), factory('dict')
NestedCreate ==
  /\ nodes = <<>>
  /\ \E kind \in {"root", "list", "dict"} : Built(factory(Now, kind, 0, NoOpts))

\* root.accept(value), list.accept(value)
NestedAccept ==
  /\ Len(nodes) < MaxNodes - 1 /\ runs = 0
  /\ \E self \in DOMAIN nodes : \E value \in NestedValues :
       /\ nodes[self].kind \in {"root", "list"}
       /\ Built(child_accept(Now, self, value, NoOpts))

\* dict.accept(value, key='a')
NestedDictAccept ==
  /\ Len(nodes) < MaxNodes - 1 /\ runs = 0
  /\ \E self \in DOMAIN nodes : \E value \in NestedValues :
       /\ nodes[self].kind = "dict"
       /\ Built(dict_accept(Now, self, value, "a", FALSE, NoOpts))

\* dict.reject_key('b')
NestedRejectKey ==
  /\ runs = 0
  /\ \E self \in DOMAIN nodes :
       /\ nodes[self].kind = "dict" /\ nodes[self].reject = <<>>
       /\ Built(Ret(reject_key(Now, self, "b", <<>>), TRUE))

\* rule.validate(data) on the rule built first
NestedValidate ==
  /\ nodes # <<>> /\ runs <= MaxCalls
  /\ \E data \in NestedData : Validate(1, data)

NextNested ==
  \/ NestedCreate
  \/ NestedAccept
  \/ NestedDictAccept
  \/ NestedRejectKey
  \/ NestedValidate

SpecNested == Init /\ [][NextNested]_vars

\* The diagnostics in the collector of rule id's tree.
Messages(w, id) == ErrorsOf(w, id).messages

\* C1: whenever validate(data) returns false, of any rule kind and on any
\* input, the collector of the tree holds more diagnostics than it held when
\* the call started.
C1_FailureAddsDiagnostic ==
  (last.op = "validate" /\ last.exc = "" /\ ~last.ret)
    => Len(Messages(Now, last.id)) > Len(Messages(Before, last.id))

\* C2: whenever rule.validate(v) returns true, of any rule kind in any
\* configuration and on any value v, rule.validateable(v) returns true.
C2_ValidImpliesValidateable ==
  (last.op = "validate" /\ last.exc = "" /\ last.ret)
    => LET a == CallValidateable(Before, last.id, last.data)
       IN a.exc = "" /\ a.ret

\* The diagnostics the last call added to the collector of its tree.
NewMessages ==
  SubSeq(Messages(Now, last.id), Len(Messages(Before, last.id)) + 1,
         Len(Messages(Now, last.id)))

\* The selections the last call made, in the order they returned.
Selections == SelectSeq(last.log, LAMBDA e : e.tier = "select")

\* C3: in alternative selection over an ordered candidate list, whenever some
\* candidate applies to the item and validates it (the selection returns
\* true), the diagnostic count when the selection returns equals the count
\* recorded when it started.
C3_SelectionRollsBack ==
  \A k \in DOMAIN Selections :
    Selections[k].ret => Selections[k].after = Selections[k].before

\* A selection that returned true, started with diagnostics already in the
\* collector, and had an earlier candidate, a sequence or a mapping rule, that
\* applied, logged two or more diagnostics in a selection of its own, and
\* failed.
C3_Witness ==
  \E k \in DOMAIN Selections : \E j \in 1..(k - 1) :
    /\ Selections[k].ret
    /\ Selections[k].before > 0
    /\ \A m \in j..(k - 1) : Selections[m].self # Selections[k].self
    /\ \E c \in DOMAIN Selections[k].rules :
         /\ Selections[j].self = Selections[k].rules[c]
         /\ nodes[Selections[k].rules[c]].kind \in {"list", "dict"}
         /\ c < Len(Selections[k].rules)
    /\ ~Selections[j].ret
    /\ Selections[j].after >= Selections[j].before + 2

\* The position of the only element of data that is no text, 0 when there is
\* not exactly one.
OnlyNonText(data) ==
  IF IsList(data) /\ Cardinality({i \in DOMAIN data.items : ~IsText(data.items[i])}) = 1
    THEN CHOOSE i \in DOMAIN data.items : ~IsText(data.items[i])
    ELSE 0

\* The last call validated, against a sequence rule whose only candidate is
\* a text rule, a sequence with exactly one element that is no text.
TextListCase ==
  /\ last.op = "validate" /\ last.exc = ""
  /\ nodes[last.id].kind = "list"
  /\ Len(nodes[last.id].valid) = 1
  /\ nodes[nodes[last.id].valid[1]].kind = "text"
  /\ OnlyNonText(last.data) # 0

\* The path segment of the element at (1-based) position i
Segment(i) == <<"list:" \o ToString(i - 1)>>

\* C6 as stated: validating a sequence whose only non-text element is at
\* index i against a sequence rule accepting only text returns false and
\* leaves exactly one new diagnostic, which refers to index i.
C6_ExactlyOneDiagnostic ==
  TextListCase =>
    /\ ~last.ret
    /\ Len(NewMessages) = 1
    /\ NewMessages[1].path = Segment(OnlyNonText(last.data))

\* C6 amended: the call returns false and every new diagnostic refers to
\* index i; there is exactly one, the custom message, when the text rule has
\* a custom message, and exactly two, the expected kinds and the value
\* received, when it has none.
C6_DiagnosticsOfTheElement ==
  TextListCase =>
    /\ ~last.ret
    /\ \A k \in DOMAIN NewMessages :
         NewMessages[k].path = Segment(OnlyNonText(last.data))
    /\ Len(NewMessages) =
         IF nodes[nodes[last.id].valid[1]].message # "" THEN 1 ELSE 2

\* ['a', 2, 'b'] validated against a sequence rule accepting only text,
\* without a custom message: two diagnostics, both at index 1.
C6_Witness ==
  /\ TextListCase
  /\ last.data = VList(<<VText("a"), VInt(2), VText("b")>>)
  /\ nodes[nodes[last.id].valid[1]].message = ""
  /\ Len(NewMessages) = 2
  /\ NewMessages[1].path = <<"list:1">>

\* The keys the last call processed, in the order it processed them: for
\* each, the branch taken and the rules chosen.
KeyRecords ==
  SelectSeq(last.log,
            LAMBDA e : e.tier \notin {"select", "path", "call"}
                         /\ e.self = last.id)

\* The selections the last call made for the values of the mapping itself.
ValueSelections ==
  SelectSeq(last.log, LAMBDA e : e.tier = "select" /\ e.self = last.id)

\* The key rule of pair i of mapping rule self accepts key, in the tree the
\* last call started on.
KeyAccepted(self, i, key) ==
  /\ CallValidateable(Before, last.before[self].key_validators[i].kv,
                      VText(key)).ret
  /\ CallValidate(Before, last.before[self].key_validators[i].kv,
                  VText(key)).ret

\* What the priority order prescribes for key of mapping rule self: the
\* branch and the rules.
Prescribed(self, key) ==
  LET nd == last.before[self]
      first == CHOOSE i \in DOMAIN nd.key_validators :
                 /\ KeyAccepted(self, i, key)
                 /\ \A j \in 1..(i - 1) : ~KeyAccepted(self, j, key)
  IN IF \E i \in DOMAIN nd.reject : nd.reject[i].k = key
       THEN [tier |-> "reject", rules |-> <<>>]
     ELSE IF \E i \in DOMAIN nd.dvalid : nd.dvalid[i].k = key
       THEN [tier |-> "explicit",
             rules |-> nd.dvalid[CHOOSE i \in DOMAIN nd.dvalid :
                                   nd.dvalid[i].k = key].rules]
     ELSE IF \E i \in DOMAIN nd.key_validators : KeyAccepted(self, i, key)
       THEN [tier |-> "key_validator", rules |-> <<nd.key_validators[first].vv>>]
     ELSE IF nd.any_key # <<>> THEN [tier |-> "any_key", rules |-> nd.any_key]
     ELSE [tier |-> "none", rules |-> <<>>]

\* The keys whose value was validated, in order, with the rules used.
Validated_keys == SelectSeq(KeyRecords, LAMBDA e : e.rules # <<>>)

\* The diagnostic a key rule of SpecDict logs on a key it does not accept.
KeyNoise(key) == "[/dict:" \o key \o "] " \o IntervalMessage

\* The new diagnostics logged under the path segment of key.
KeyMessages(key) ==
  SelectSeq(NewMessages, LAMBDA m : m.path = <<"dict:" \o key>>)

\* The text of the new diagnostics.
Texts(ms) == {ms[i].text : i \in DOMAIN ms}

\* C4: for each key of a validated mapping the rules applied to its value
\* are chosen by strict priority: rejected (forbidden-key diagnostic only,
\* value not validated), else the explicit rules of the key alone, else the
\* value rule of the first key-predicate pair whose key rule accepts the key,
\* else the catch-all rules, else a key-not-recognized diagnostic; and the
\* diagnostics of key-predicate rules that did not match are removed whenever
\* rules were found.
C4_KeyPriority ==
  (last.op = "validate" /\ last.exc = "" /\ IsDict(last.data)) =>
    /\ Len(KeyRecords) = Len(last.data.items)
    /\ \A k \in DOMAIN KeyRecords :
         /\ KeyRecords[k].key = last.data.items[k].k
         /\ KeyRecords[k].tier = Prescribed(last.id, KeyRecords[k].key).tier
         /\ KeyRecords[k].rules = Prescribed(last.id, KeyRecords[k].key).rules
         /\ KeyRecords[k].tier = "reject" =>
              \E m \in {"key '" \o KeyRecords[k].key \o "' is forbidden here",
                        "no " \o KeyRecords[k].key} :
                Texts(KeyMessages(KeyRecords[k].key))
                  = {"[/dict:" \o KeyRecords[k].key \o "] " \o m}
         /\ KeyRecords[k].tier = "none" =>
              \E m \in Texts(KeyMessages(KeyRecords[k].key)) :
                m = "[/dict:" \o KeyRecords[k].key \o "] "
                      \o not_recognized(last.before[last.id].dvalid,
                                        KeyRecords[k].key)
         /\ KeyRecords[k].rules # <<>> =>
              KeyNoise(KeyRecords[k].key) \notin Texts(NewMessages)
    /\ Len(ValueSelections) = Len(Validated_keys)
    /\ \A k \in DOMAIN ValueSelections :
         /\ ValueSelections[k].rules = Validated_keys[k].rules
         /\ ValueSelections[k].item = DictGet(last.data, Validated_keys[k].key)

\* Key a, not rejected and without explicit rules, was given the value rule
\* of the second key-predicate pair after the key rule of the first pair had
\* refused it, while a catch-all rule was registered too.
C4_Witness ==
  /\ last.op = "validate" /\ last.exc = "" /\ IsDict(last.data)
  /\ \E k \in DOMAIN KeyRecords :
       /\ KeyRecords[k].tier = "key_validator"
       /\ Len(last.before[last.id].key_validators) >= 2
       /\ KeyRecords[k].rules = <<last.before[last.id].key_validators[2].vv>>
       /\ ~KeyAccepted(last.id, 1, KeyRecords[k].key)
       /\ last.before[last.id].any_key # <<>>

\* An explicit rule list was used alone and failed although a catch-all rule
\* accepts the value.
C4_WitnessExplicit ==
  /\ last.op = "validate" /\ last.exc = "" /\ ~last.ret
  /\ \E k \in DOMAIN KeyRecords :
       /\ KeyRecords[k].tier = "explicit"
       /\ \E a \in DOMAIN last.before[last.id].any_key :
            CallValidate(Before, last.before[last.id].any_key[a],
                         DictGet(last.data, KeyRecords[k].key)).ret

\* The text of the missing-required-key diagnostic of key, at the top of the
\* path.
RequiredText(key) == "[/] key '" \o key \o "' required"

\* The number of new diagnostics with text m.
Occurrences(ms, m) == Cardinality({i \in DOMAIN ms : ms[i].text = m})

\* The missing-required-key diagnostics among ms.
MissingSet(ms, required_keys) ==
  {RequiredText(required_keys[i]) : i \in DOMAIN required_keys} \cap Texts(ms)

\* The same mapping with its keys iterated in the opposite order.
Reversed(data) ==
  VDict([i \in DOMAIN data.items |-> data.items[Len(data.items) + 1 - i]])

\* The diagnostics validate adds, from the tree the last call started on, to
\* the mapping data.
MessagesOn(r) ==
  SubSeq(Messages(r.w, last.id), Len(Messages(Before, last.id)) + 1,
         Len(Messages(r.w, last.id)))

\* The call on the reversed mapping returns what the last call returned and
\* reports the same missing required keys.
SameAsReversed(r) ==
  /\ r.exc = ""
  /\ r.ret = last.ret
  /\ MissingSet(MessagesOn(r), last.before[last.id].required_keys)
       = MissingSet(NewMessages, last.before[last.id].required_keys)

\* C5: for a mapping rule with any required keys and any input mapping, the
\* result of validate and the set of missing-required-key diagnostics are the
\* same for every order of the input's keys; exactly one such diagnostic is
\* emitted for each required key absent from the input, none for a key that
\* is present, and all of them come after the diagnostics of the present
\* keys.
C5_RequiredKeysOrderFree ==
  (last.op = "validate" /\ last.exc = "" /\ IsDict(last.data)) =>
    LET req == last.before[last.id].required_keys
        missing == {i \in DOMAIN NewMessages :
                      \E k \in Range(req) : NewMessages[i].text = RequiredText(k)}
    IN /\ SameAsReversed(CallValidate(Before, last.id, Reversed(last.data)))
       /\ \A k \in Range(req) :
            Occurrences(NewMessages, RequiredText(k))
              = IF k \in DictKeys(last.data) THEN 0 ELSE 1
       /\ \A i \in missing : \A j \in DOMAIN NewMessages :
            j > i => j \in missing
       /\ (missing # {}) => ~last.ret

\* A mapping with two keys, logging diagnostics of their own, was validated
\* by a rule with two required keys, one of them absent from the mapping.
C5_Witness ==
  /\ last.op = "validate" /\ last.exc = "" /\ IsDict(last.data)
  /\ Len(last.data.items) = 2
  /\ Len(last.before[last.id].required_keys) = 2
  /\ Len(last.before[last.id].dvalid) = 1
  /\ Occurrences(NewMessages, RequiredText("b")) = 1
  /\ Len(NewMessages) >= 3

\* The schema document of the rules: the sole rule's schema, or the
\* disjunction of the schemas.
Disjunction(w, rules) ==
  IF Len(rules) = 1 THEN schema(w, rules[1]).doc
  ELSE JObj("anyOf" :> JArr([i \in DOMAIN rules |-> schema(w, rules[i]).doc]))

\* C10: schema() of a mapping rule returns a document with type object,
\* whose properties maps each explicitly accepted key to the disjunction of
\* the schemas of that key's rules, whose required lists the required keys,
\* and whose additionalProperties is the disjunction of the catch-all rules'
\* schemas, or false without a catch-all rule.
C10_DictSchema ==
  (last.op = "schema" /\ nodes[last.id].kind = "dict") =>
    LET nd == nodes[last.id]
        doc == last.doc.obj
    IN /\ last.exc = ""
       /\ doc["type"] = JStr("object")
       /\ DOMAIN doc["properties"].obj = {nd.dvalid[i].k : i \in DOMAIN nd.dvalid}
       /\ \A i \in DOMAIN nd.dvalid :
            doc["properties"].obj[nd.dvalid[i].k]
              = Disjunction(Now, nd.dvalid[i].rules)
       /\ IF nd.required_keys = <<>> THEN "required" \notin DOMAIN doc
          ELSE doc["required"]
                 = JArr([i \in DOMAIN nd.required_keys |-> JStr(nd.required_keys[i])])
       /\ doc["additionalProperties"]
            = IF nd.any_key = <<>> THEN JBool(FALSE)
              ELSE Disjunction(Now, nd.any_key)

RECURSIVE Depth(_)
\* The nesting depth of a value: 0 for a scalar, one more than its deepest
\* element for a list or a mapping.
Depth(d) ==
  IF ~(IsDict(d) \/ IsList(d)) THEN 0
  ELSE IF d.items = <<>> THEN 1
  ELSE 1 + (CHOOSE n \in 0..MaxDepth + 1 :
              /\ \E i \in DOMAIN d.items :
                   n = Depth(IF IsDict(d) THEN d.items[i].v ELSE d.items[i])
              /\ \A i \in DOMAIN d.items :
                   n >= Depth(IF IsDict(d) THEN d.items[i].v ELSE d.items[i]))

RECURSIVE ChildChain(_)
\* The number of values validation reaches through key child
ChildChain(d) ==
  IF IsDict(d) /\ "child" \in DictKeys(d) THEN 1 + ChildChain(DictGet(d, "child"))
  ELSE 0

\* The wrappers that have not called their constructor
Deferred == {id \in DOMAIN nodes : nodes[id].kind = "lazy" /\ nodes[id].validator = 0}

\* C7: a mapping rule that accepts, under key child, a deferred copy of
\* itself is constructed without a constructor invocation by a wrapper, and
\* validating a finite nested input returns; a wrapper calls the constructor
\* only when validation reaches it, so that the invocations of one call are
\* bounded by the nesting depth of its input.
C7_LazySelfReference ==
  /\ (nodes # <<>> /\ runs = 0) =>
       /\ calls = 0
       /\ Len(nodes) = 2 /\ Deferred = {2}
  /\ last.op = "validate" =>
       /\ last.exc = ""
       /\ calls - last.calls0 <= ChildChain(last.data)
       /\ ChildChain(last.data) <= Depth(last.data)
       /\ calls >= ChildChain(last.data)
       /\ Len(nodes) = 2 * (calls + 1)
       /\ Cardinality(Deferred) = 1

\* {child: {child: {}}} was validated on the rule as constructed: it is
\* valid, and the wrappers called the constructor twice.
C7_Witness ==
  /\ last.op = "validate" /\ last.exc = "" /\ last.ret
  /\ last.data = VDict(<<KV("child", VDict(<<KV("child", VDict(<<>>))>>))>>)
  /\ last.calls0 = 0
  /\ calls = 2

\* The rules held in the child lists of rule id
Children(ns, id) ==
  Range(ns[id].valid) \cup Range(ns[id].any_key)
    \cup UNION {Range(ns[id].dvalid[i].rules) : i \in DOMAIN ns[id].dvalid}
    \cup UNION {{ns[id].key_validators[i].kv, ns[id].key_validators[i].vv} :
                  i \in DOMAIN ns[id].key_validators}

RECURSIVE ReachableFuel(_, _, _)
\* The rules reachable from the rules of set s through child lists
ReachableFuel(ns, s, fuel) ==
  IF fuel = 0 THEN s
  ELSE ReachableFuel(ns, s \cup UNION {Children(ns, id) : id \in s}, fuel - 1)
Reachable(ns, root) == ReachableFuel(ns, {root}, Len(ns))

\* C8: after any sequence of construction operations, every rule reachable
\* from a parentless rule through its child lists resolves its collector, by
\* walking the parent references, to the collector of that parentless rule;
\* this includes a built rule accepted into more than one parent.
C8_OneCollector ==
  \A root \in DOMAIN nodes :
    nodes[root].parent = 0 =>
      \A x \in Reachable(nodes, root) : RootOf(nodes, x) = root

\* C9: create(name).schema(), for every name in the registry, returns a
\* schema document and does not fail.
C9_SchemaOfEveryKind ==
  (last.op = "schema" /\ ops = 1) => last.exc = ""


Alone(t) ==
  CallValidate(World([nodes EXCEPT ![1].errors = <<>>], 0), 1,
               threads.procs[t].data)

AllDone == \A t \in 1..2 : threads.procs[t].pc = "done"

\* C12: when the validate calls of two threads on one tree are serialized
\* (no collector operation of one call lies between two of the other), each
\* call returns what it returns when run alone, raises nothing, and the
\* collector holds the diagnostics of the first call alone followed by those
\* of the second call alone, its path empty again.
C12_SerializedAsAlone ==
  (AllDone /\ ~threads.mixed) =>
    /\ \A t \in 1..2 :
         /\ threads.procs[t].exc = "" /\ Alone(t).exc = ""
         /\ threads.procs[t].ret = Alone(t).ret
    /\ Messages(Now, 1) = Messages(Alone(threads.order[1]).w, 1)
                            \o Messages(Alone(threads.order[2]).w, 1)
    /\ ErrorsOf(Now, 1).path = <<>>

\* Two interleaved calls have returned, and one of them reports as failing
\* data that is valid when the call runs alone.
C12_Witness ==
  /\ AllDone /\ threads.mixed
  /\ \E t \in 1..2 :
       /\ threads.procs[t].exc = ""
       /\ Alone(t).ret /\ ~threads.procs[t].ret

\* Two interleaved calls have returned, and a diagnostic that one of them
\* logs when run alone is missing from the collector: the rollback of the
\* other call removed it.
C12_RollbackRemovesForeign ==
  /\ AllDone /\ threads.mixed
  /\ \E t \in 1..2 :
       /\ threads.procs[t].exc = "" /\ threads.procs[3 - t].exc = ""
       /\ Messages(Alone(t).w, 1) # <<>>
       /\ Messages(Alone(3 - t).w, 1) = <<>>
       /\ Messages(Now, 1) = <<>>

\* Two interleaved calls have returned, and a diagnostic in the collector
\* carries two path segments, one of them opened by the other call (a
\* mapping rule over type rules opens one segment).
C12_ForeignSegment ==
  /\ AllDone /\ threads.mixed
  /\ \E m \in DOMAIN Messages(Now, 1) : Len(Messages(Now, 1)[m].path) = 2

\* The wrappers a validate call on the root rule uses whatever the data: the
\* first child of the root, validate_item starting with its validateable.
FirstUsed(ns) ==
  IF ns[1].valid # <<>> /\ ns[ns[1].valid[1]].kind = "lazy"
    THEN {ns[1].valid[1]} ELSE {}

\* C13: no operation is forwarded to an object that is not a rule: a use of
\* a wrapper whose constructor returned such an object ends in the failed
\* check (AssertionError), the first use and every later one; and a
\* wrapper's constructor is called at most once.
C13_ForwardsToRulesOnly ==
  /\ last.op = "validate" =>
       \A id \in FirstUsed(nodes) :
         (nodes[id].validator # 0 /\ ~IsValidator(Now, nodes[id].validator))
           => last.exc = "AssertionError"
  /\ calls <= Cardinality({id \in DOMAIN nodes : nodes[id].kind = "lazy"})

\* C14: after a sequence rule has validated a sequence, every diagnostic
\* logged while the element at position i was validated is labelled with
\* the path segment of position i (sequence indices count from 0).
C14_ElementLabelledByPosition ==
  (last.op = "validate" /\ last.exc = "" /\ nodes[last.id].kind = "list"
     /\ IsList(last.data)) =>
    \A k \in DOMAIN ValueSelections :
      \A m \in (ValueSelections[k].before + 1)..ValueSelections[k].after :
        Messages(Now, last.id)[m].path[1] = Segment(k)[1]

\* The operations the last call made on the path of a collector, and the
\* validate calls, nested ones included, that returned during the last call.
PathRecords == SelectSeq(last.log, LAMBDA e : e.tier = "path")
CallRecords == SelectSeq(last.log, LAMBDA e : e.tier = "call")

\* C15: every validate call that returns, at any nesting depth, leaves the
\* path of the collector as it was when the call started; and whenever a
\* segment is open the marker is the path length minus one, so that update
\* rewrites, and close removes, the last segment of the path and no other.
C15_PathBalanced ==
  /\ \A k \in DOMAIN CallRecords : CallRecords[k].path = CallRecords[k].path0
  /\ (last.op = "validate" /\ last.exc = "") =>
       ErrorsOf(Now, last.id).path = ErrorsOf(Before, last.id).path
  /\ \A k \in DOMAIN PathRecords :
       LET e == PathRecords[k]
       IN /\ e.path # <<>> => e.level = <<Len(e.path) - 1>>
          /\ e.op = "open" => SubSeq(e.path, 1, Len(e.path) - 1) = e.path0
          /\ e.op \in {"update", "close"} =>
               /\ e.level0 = <<Len(e.path0) - 1>>
               /\ SubSeq(e.path, 1, Len(e.path0) - 1)
                    = SubSeq(e.path0, 1, Len(e.path0) - 1)
               /\ Len(e.path) = IF e.op = "update" THEN Len(e.path0)
                                ELSE Len(e.path0) - 1

\* A call that started with a segment left open by an earlier call that
\* raised, went two segments deeper, met a rejected key, and returned false
\* with the path it started with.
C15_Witness ==
  /\ last.op = "validate" /\ last.exc = "" /\ ~last.ret
  /\ ErrorsOf(Before, last.id).path # <<>>
  /\ ErrorsOf(Now, last.id).path = ErrorsOf(Before, last.id).path
  /\ \E k \in DOMAIN PathRecords :
       Len(PathRecords[k].path) = Len(ErrorsOf(Before, last.id).path) + 2
  /\ \E k \in DOMAIN last.log : last.log[k].tier = "reject"

\* The outcome of the last call had the collector of its tree been fresh.
FreshRun ==
  CallValidate(World([last.before EXCEPT ![RootOf(last.before, last.id)].errors
                                            = <<>>],
                     last.calls0),
               last.id, last.data)

\* s is an initial segment of t
IsPrefix(s, t) == Len(s) <= Len(t) /\ SubSeq(t, 1, Len(s)) = s

\* C16: whatever diagnostics earlier calls left in the collector, a validate
\* call returns the boolean (and raises the exception) it does with a fresh
\* collector, and the diagnostics that were in the collector when the call,
\* or a call nested in it, started are still its first diagnostics,
\* unchanged, afterwards.
C16_ReuseKeepsResultAndMessages ==
  last.op = "validate" =>
    /\ last.exc = FreshRun.exc
    /\ last.exc = "" => last.ret = FreshRun.ret
    /\ IsPrefix(Messages(Before, last.id), Messages(Now, last.id))
    /\ \A k \in DOMAIN CallRecords : CallRecords[k].kept

\* A call on a tree whose collector held diagnostics of an earlier call
\* found nested data valid, as it does with a fresh collector, and left the
\* collector as it found it.
C16_Witness ==
  /\ last.op = "validate" /\ last.exc = "" /\ last.ret
  /\ Messages(Before, last.id) # <<>>
  /\ Messages(Now, last.id) = Messages(Before, last.id)
  /\ FreshRun.ret
  /\ \E k \in DOMAIN PathRecords : Len(PathRecords[k].path) >= 2
====
